---- MODULE Spec2Model ----
(***************************************************************************)
(* A model of the diff engine of AVGVSTVS96/differential:                  *)
(*   - ApplyHighlighting / StripANSI (the highlight compositor), on byte   *)
(*     strings: a string is a sequence of byte values 0..255, offsets are  *)
(*     Go's 0-based byte offsets;                                          *)
(*   - ParseUnifiedDiff / parseDiffLine (the unified-diff parser), on      *)
(*     lines: a line is a sequence of one-character strings.               *)
(***************************************************************************)
EXTENDS Integers, Sequences, FiniteSets, TLC

VARIABLES
    \* ---- ApplyHighlighting: arguments, result, position of the call
    content, segments, segmentType, highlightStyle, composed, hlPc,
    \* ---- ParseUnifiedDiff: the scanner's lines read so far, the locals of
    \* the function and its position, the scanner's error
    input, result, currentHunk, oldLine, newLine, inFileHeader, parsePc, scanErr,
    \* ---- HighlightIntralineChanges / PairLines on one hunk: h.Lines, the
    \* loop index i, the edit script DiffMain returned for each pair, the
    \* pairs PairLines returned, the position
    hunk, hi, scripts, pairs, hunkPc,
    \* ---- package themes: its globals, and the last call made to it
    availableThemes, currentTheme, terminalIsDark, lastCall, calls,
    \* ---- RenderUnifiedDiff / RenderSideBySideDiff: the arguments, the
    \* position, the locals theme and sb, the hunk being rendered, and
    \* renderUnifiedHunk's lines (lineSlots), WaitGroup counter, the workers
    \* that have not assigned their slot yet (pending) and those that have
    \* but have not run wg.Done() yet (exiting), the workers that wrote each
    \* slot (writers), and what the chroma library does when called
    \* (highlighter)
    rResult, rView, renderPc, theme, sb, rHunk, lineSlots, wg, pending, exiting, writers,
    highlighter,
    \* ---- renderSideBySideLine: arguments, result, position of the call
    colFilename, colLine, colOpts, colIsLeft, column, colPc,
    \* ---- the TUI (app.Model): the fields of the model bubbletea holds, the
    \* last message or call bubbletea made, the position of the program
    ready, windowHeight, mErr, diffResult, viewMode, scrollOffset, showLineNumbers, mode,
    lastMsg, tuiPc,
    \* ---- RunPipeMode: the --no-pager flag, what the process runs in, the
    \* formatted output's line count, where the output went, the position
    noPager, stdoutIsTerminal, termHeight, lineCount, pagers, pipeOut, pipePc,
    \* ---- TruncateString: arguments, result, position of the call
    truncStr, truncWidth, truncated, truncPc

hlVars == <<content, segments, segmentType, highlightStyle, composed, hlPc>>
parseVars == <<input, result, currentHunk, oldLine, newLine, inFileHeader, parsePc, scanErr>>
hunkVars == <<hunk, hi, scripts, pairs, hunkPc>>
themeVars == <<availableThemes, currentTheme, terminalIsDark, lastCall, calls>>
renderVars ==
    <<rResult, rView, renderPc, theme, sb, rHunk, lineSlots, wg, pending, exiting, writers,
      highlighter>>
columnVars == <<colFilename, colLine, colOpts, colIsLeft, column, colPc>>
tuiVars ==
    <<ready, windowHeight, mErr, diffResult, viewMode, scrollOffset, showLineNumbers, mode,
      lastMsg, tuiPc>>
pipeVars == <<noPager, stdoutIsTerminal, termHeight, lineCount, pagers, pipeOut, pipePc>>
appVars == <<tuiVars, pipeVars>>
truncVars == <<truncStr, truncWidth, truncated, truncPc>>
vars == <<hlVars, parseVars, hunkVars, themeVars, renderVars, columnVars, appVars, truncVars>>

(***************************************************************************)
(* Bounds of the model.                                                    *)
(***************************************************************************)
\* pieces (characters or escape sequences) a content is built from
MaxChunks == 4
\* segments handed to one ApplyHighlighting call
MaxSegs == 1
\* lines the scanner reads from one diff text
MaxLines == 5
\* lines the scanner reads in the file-header study
MaxHeaderLines == 2
\* lines of the hunk handed to HighlightIntralineChanges and PairLines
MaxHunkLines == 3
\* pieces a string handed to TruncateString is built from
MaxTruncChunks == 3

(***************************************************************************)
(* types.go                                                                *)
(***************************************************************************)
LineContext == "LineContext"
LineAdded == "LineAdded"
LineRemoved == "LineRemoved"

Segment(start, end, type, text) ==
    [Start |-> start, End |-> end, Type |-> type, Text |-> text]

(***************************************************************************)
(* Byte strings.                                                           *)
(***************************************************************************)
ESC == 27

\* s[a:b] with Go's 0-based half-open offsets
Slice(s, a, b) == SubSeq(s, a + 1, b)

\* the classes of ansiRegex: [0-9?], [@-~], [@-Z\\-_]
IsParamByte(b) == b \in 48..57 \/ b = 63
IsFinalByte(b) == b \in 64..126
IsFeByte(b) == b \in 64..90 \/ b \in 92..95

\* [0-9?]*(?:;[0-9?]*)* from 1-based index j: the index of the first byte
\* that is neither a parameter byte nor ';'
RECURSIVE SkipParams(_, _)
SkipParams(s, j) ==
    IF j <= Len(s) /\ (IsParamByte(s[j]) \/ s[j] = 59)
    THEN SkipParams(s, j + 1)
    ELSE j

\* ansiRegex anchored at offset i: the end offset of the match, or -1.
\* The byte classes of the expression are pairwise disjoint, so the greedy
\* match is the only match.
AnsiMatchAt(s, i) ==
    IF i + 2 > Len(s) \/ s[i + 1] # ESC THEN -1
    ELSE IF IsFeByte(s[i + 2]) THEN i + 2
    ELSE IF s[i + 2] = 91
         THEN LET j == SkipParams(s, i + 3)
              IN  IF j <= Len(s) /\ IsFinalByte(s[j]) THEN j ELSE -1
         ELSE -1

\* ansiRegex.FindAllStringIndex(s, -1) from offset i: leftmost,
\* non-overlapping <<start, end>> pairs
RECURSIVE FindAllFrom(_, _)
FindAllFrom(s, i) ==
    IF i >= Len(s) THEN <<>>
    ELSE LET e == AnsiMatchAt(s, i)
         IN  IF e >= 0 THEN <<<<i, e>>>> \o FindAllFrom(s, e)
             ELSE FindAllFrom(s, i + 1)

FindAllStringIndex(s) == FindAllFrom(s, 0)

\* for _, match := range ansiMatches { if match[0] == i {...; break} }:
\* the first match starting at i, or <<>>
MatchAt(matches, i) ==
    LET hits == {k \in 1..Len(matches) : matches[k][1] = i}
    IN  IF hits = {} THEN <<>>
        ELSE matches[CHOOSE k \in hits : \A j \in hits : k <= j]

IsContByte(b) == b \in 128..191

\* utf8.DecodeRuneInString(s[i:]) followed by WriteRune: size is the number
\* of bytes consumed, enc the bytes WriteRune emits for the decoded rune.
\* One-, two- and three-byte forms are decoded (the three-byte form without
\* the overlong and surrogate exclusions); every other byte >= 0x80 decodes
\* to RuneError with size 1, which WriteRune encodes as EF BF BD.
DecodeRune(s, i) ==
    LET b == s[i + 1]
    IN  IF b < 128 THEN [size |-> 1, enc |-> <<b>>]
        ELSE IF b \in 194..223 /\ i + 2 <= Len(s) /\ IsContByte(s[i + 2])
             THEN [size |-> 2, enc |-> <<b, s[i + 2]>>]
        ELSE IF b \in 224..239 /\ i + 3 <= Len(s)
                /\ IsContByte(s[i + 2]) /\ IsContByte(s[i + 3])
             THEN [size |-> 3, enc |-> <<b, s[i + 2], s[i + 3]>>]
        ELSE [size |-> 1, enc |-> <<239, 191, 189>>]

\* "\x1b[0m"
ResetSeq == <<27, 91, 48, 109>>

\* m[k] = v on a Go map held as a function
MapPut(m, k, v) == [x \in (DOMAIN m) \cup {k} |-> IF x = k THEN v ELSE m[x]]

(***************************************************************************)
(* StripANSI: ansiRegex.ReplaceAllString(str, "")                          *)
(***************************************************************************)
RECURSIVE StripFrom(_, _, _)
StripFrom(s, matches, i) ==
    IF i >= Len(s) THEN <<>>
    ELSE LET m == MatchAt(matches, i)
         IN  IF m # <<>> THEN StripFrom(s, matches, m[2])
             ELSE <<s[i + 1]>> \o StripFrom(s, matches, i + 1)

StripANSI(str) == StripFrom(str, FindAllStringIndex(str), 0)

(***************************************************************************)
(* ApplyHighlighting                                                       *)
(***************************************************************************)
\* Pass 1: the ansiSequences table, visible index -> escape sequence
RECURSIVE BuildAnsiSequences(_, _, _, _, _, _)
BuildAnsiSequences(s, matches, byteIdx, visibleIdx, lastAnsiSeq, tbl) ==
    IF byteIdx >= Len(s) THEN tbl
    ELSE LET m == MatchAt(matches, byteIdx)
         IN  IF m # <<>>
             THEN LET ansiSeq == Slice(s, m[1], m[2])
                  IN  BuildAnsiSequences(s, matches, m[2], visibleIdx, ansiSeq,
                                         MapPut(tbl, visibleIdx, ansiSeq))
             ELSE IF visibleIdx \in DOMAIN tbl
                  THEN BuildAnsiSequences(s, matches,
                                          byteIdx + DecodeRune(s, byteIdx).size,
                                          visibleIdx + 1, lastAnsiSeq, tbl)
                  ELSE BuildAnsiSequences(s, matches,
                                          byteIdx + DecodeRune(s, byteIdx).size,
                                          visibleIdx + 1, lastAnsiSeq,
                                          MapPut(tbl, visibleIdx, lastAnsiSeq))

\* Pass 2, the loop over the segments at one visible character:
\* st = [sb, inSelection]
RECURSIVE SegmentLoop(_, _, _, _, _, _, _)
SegmentLoop(segs, k, segType, style, tbl, currentPos, st) ==
    IF k > Len(segs) THEN st
    ELSE LET seg == segs[k]
             entered ==
                 IF seg.Type = segType /\ currentPos = seg.Start /\ ~st.inSelection
                 THEN [sb |-> st.sb \o style, inSelection |-> TRUE]
                 ELSE st
             left ==
                 IF seg.Type = segType /\ currentPos = seg.End /\ entered.inSelection
                 THEN [sb |-> entered.sb \o ResetSeq
                                \o (IF currentPos \in DOMAIN tbl THEN tbl[currentPos] ELSE <<>>),
                       inSelection |-> FALSE]
                 ELSE entered
         IN  SegmentLoop(segs, k + 1, segType, style, tbl, currentPos, left)

\* Pass 2: the walk over content: st = [sb, i, inSelection, currentPos]
RECURSIVE HighlightWalk(_, _, _, _, _, _, _)
HighlightWalk(s, matches, segs, segType, style, tbl, st) ==
    IF st.i >= Len(s)
    THEN IF st.inSelection THEN st.sb \o ResetSeq ELSE st.sb
    ELSE LET m == MatchAt(matches, st.i)
         IN  IF m # <<>>
             THEN HighlightWalk(s, matches, segs, segType, style, tbl,
                                [st EXCEPT !.sb = @ \o Slice(s, m[1], m[2]), !.i = m[2]])
             ELSE LET after == SegmentLoop(segs, 1, segType, style, tbl, st.currentPos,
                                           [sb |-> st.sb, inSelection |-> st.inSelection])
                      r == DecodeRune(s, st.i)
                  IN  HighlightWalk(s, matches, segs, segType, style, tbl,
                                    [sb |-> after.sb \o r.enc,
                                     i |-> st.i + r.size,
                                     inSelection |-> after.inSelection,
                                     currentPos |-> st.currentPos + 1])

\* ApplyHighlighting without its len(segments) == 0 guard
ApplyHighlighting_NoGuard(s, segs, segType, style) ==
    LET matches == FindAllStringIndex(s)
        tbl == BuildAnsiSequences(s, matches, 0, 0, ResetSeq, <<>>)
    IN  HighlightWalk(s, matches, segs, segType, style, tbl,
                      [sb |-> <<>>, i |-> 0, inSelection |-> FALSE, currentPos |-> 0])

ApplyHighlighting(s, segs, segType, style) ==
    IF Len(segs) = 0 THEN s
    ELSE LET matches == FindAllStringIndex(s)
             tbl == BuildAnsiSequences(s, matches, 0, 0, ResetSeq, <<>>)
         IN  HighlightWalk(s, matches, segs, segType, style, tbl,
                           [sb |-> <<>>, i |-> 0, inSelection |-> FALSE, currentPos |-> 0])

\* fmt.Sprintf("\x1b[38;2;%s;48;2;%sm", fg, bg)
CreateHighlightStyle(fg, bg) ==
    <<27, 91, 51, 56, 59, 50, 59>> \o fg \o <<59, 52, 56, 59, 50, 59>> \o bg \o <<109>>

\* renderUnifiedLine: fmt.Sprintf("\x1b[48;2;%d;%d;%dm", r, g, b), for
\* one-digit r, g, b
BackgroundStyle(r, g, b) ==
    <<27, 91, 52, 56, 59, 50, 59, 48 + r, 59, 48 + g, 59, 48 + b, 109>>

(***************************************************************************)
(* The parser (ParseUnifiedDiff).  A line is a sequence of one-character   *)
(* strings; indexes into a line are 1-based.                               *)
(***************************************************************************)
Digits == {"0", "1", "2", "3", "4", "5", "6", "7", "8", "9"}

DigitValue(c) ==
    CASE c = "0" -> 0 [] c = "1" -> 1 [] c = "2" -> 2 [] c = "3" -> 3 [] c = "4" -> 4
      [] c = "5" -> 5 [] c = "6" -> 6 [] c = "7" -> 7 [] c = "8" -> 8 [] c = "9" -> 9

\* regexp \s
IsSpace(c) == c \in {" ", "\t", "\n", "\f", "\r"}

\* pre occurs in s at index i
HasPrefixAt(s, i, pre) ==
    /\ i - 1 + Len(pre) <= Len(s)
    /\ SubSeq(s, i, i - 1 + Len(pre)) = pre

\* \d+ (greedy) at index i: the index after the digits
RECURSIVE DigitsEnd(_, _)
DigitsEnd(s, i) == IF i <= Len(s) /\ s[i] \in Digits THEN DigitsEnd(s, i + 1) ELSE i

\* \s+ (greedy) at index i: the index after the spaces
RECURSIVE SpacesEnd(_, _)
SpacesEnd(s, i) == IF i <= Len(s) /\ IsSpace(s[i]) THEN SpacesEnd(s, i + 1) ELSE i

\* strconv.Atoi on a run of digits (small enough not to overflow)
RECURSIVE AtoiFrom(_, _)
AtoiFrom(ds, acc) ==
    IF ds = <<>> THEN acc ELSE AtoiFrom(Tail(ds), acc * 10 + DigitValue(Head(ds)))

Atoi(ds) == AtoiFrom(ds, 0)

\* (?:,(\d+))? at index i: the index after it
OptionalCount(s, i) ==
    IF HasPrefixAt(s, i, <<",">>) /\ DigitsEnd(s, i + 1) > i + 1
    THEN DigitsEnd(s, i + 1)
    ELSE i

\* ^@@ -(\d+)(?:,(\d+))? \+(\d+)(?:,(\d+))? @@ : <<matches[1], matches[3]>>,
\* or <<>> when the line does not match
hunkHeaderRegex(line) ==
    IF ~HasPrefixAt(line, 1, <<"@", "@", " ", "-">>) THEN <<>>
    ELSE LET a == DigitsEnd(line, 5)
             b == OptionalCount(line, a)
             c == DigitsEnd(line, b + 2)
             d == OptionalCount(line, c)
         IN  IF /\ a > 5
                /\ HasPrefixAt(line, b, <<" ", "+">>)
                /\ c > b + 2
                /\ HasPrefixAt(line, d, <<" ", "@", "@">>)
             THEN <<SubSeq(line, 5, a - 1), SubSeq(line, b + 2, c - 1)>>
             ELSE <<>>

\* ^Binary files? .* differ$
binaryFileRegex(line) ==
    \E pre \in {<<"B", "i", "n", "a", "r", "y", " ", "f", "i", "l", "e", " ">>,
                <<"B", "i", "n", "a", "r", "y", " ", "f", "i", "l", "e", "s", " ">>} :
        /\ HasPrefixAt(line, 1, pre)
        /\ Len(line) >= Len(pre) + 7
        /\ SubSeq(line, Len(line) - 6, Len(line)) = <<" ", "d", "i", "f", "f", "e", "r">>

\* \d{4}-\d{2}-\d{2} at index j
DateAt(s, j) ==
    /\ j + 9 <= Len(s)
    /\ \A k \in {0, 1, 2, 3, 5, 6, 8, 9} : s[j + k] \in Digits
    /\ s[j + 4] = "-" /\ s[j + 7] = "-"

\* \s+\d{4}-\d{2}-\d{2}.*$ from index i
TimestampAt(s, i) ==
    LET j == SpacesEnd(s, i) IN j > i /\ DateAt(s, j)

\* the capture of a greedy (.+)$: the timestamp is not split off
LazyPath_Greedy(s, i) ==
    IF i > Len(s) THEN <<>> ELSE SubSeq(s, i, Len(s))

\* (.+?)(?:\s+\d{4}-\d{2}-\d{2}.*)?$ from index i: the capture, the
\* shortest non-empty one after which the rest is a timestamp or nothing;
\* <<>> when nothing is left to capture
LazyPath(s, i) ==
    IF i > Len(s) THEN <<>>
    ELSE LET ends == {e \in i..Len(s) : e = Len(s) \/ TimestampAt(s, e + 1)}
         IN  SubSeq(s, i, CHOOSE e \in ends : \A f \in ends : e <= f)

\* ^<marker> (?:<prefix>)?(.+?)(?:\s+\d{4}-\d{2}-\d{2}.*)?$ : matches[1], or
\* <<>> when the line does not match.  The optional prefix is taken when
\* the match can go on after it (leftmost-first).
FileHeaderPath(line, marker, prefix) ==
    IF ~HasPrefixAt(line, 1, marker) THEN <<>>
    ELSE LET i == Len(marker) + 1
         IN  IF HasPrefixAt(line, i, prefix) /\ i + Len(prefix) <= Len(line)
             THEN LazyPath(line, i + Len(prefix))
             ELSE LazyPath(line, i)

\* ^--- (?:a/)?(.+?)(?:\s+\d{4}-\d{2}-\d{2}.*)?$
oldFileRegex(line) == FileHeaderPath(line, <<"-", "-", "-", " ">>, <<"a", "/">>)

\* ^\+\+\+ (?:b/)?(.+?)(?:\s+\d{4}-\d{2}-\d{2}.*)?$
newFileRegex(line) == FileHeaderPath(line, <<"+", "+", "+", " ">>, <<"b", "/">>)

DiffLine(kind, oldNo, newNo, text) ==
    [OldLineNo |-> oldNo, NewLineNo |-> newNo, Kind |-> kind, Content |-> text, Segments |-> <<>>]

\* parseDiffLine with the '+' case advancing both counters, as the ' ' case does
parseDiffLine_AddAdvancesOld(line, old, new) ==
    IF Len(line) = 0
    THEN [dl |-> DiffLine(LineContext, old, new, <<>>), oldLine |-> old, newLine |-> new]
    ELSE CASE line[1] = "+" ->
                 [dl |-> DiffLine(LineAdded, 0, new, Tail(line)), oldLine |-> old + 1, newLine |-> new + 1]
           [] line[1] = "-" ->
                 [dl |-> DiffLine(LineRemoved, old, 0, Tail(line)), oldLine |-> old + 1, newLine |-> new]
           [] line[1] = " " ->
                 [dl |-> DiffLine(LineContext, old, new, Tail(line)), oldLine |-> old + 1, newLine |-> new + 1]
           [] OTHER ->
                 [dl |-> DiffLine(LineContext, old, new, line), oldLine |-> old + 1, newLine |-> new + 1]

\* parseDiffLine: the line built and the two counters after the call
parseDiffLine(line, old, new) ==
    IF Len(line) = 0
    THEN [dl |-> DiffLine(LineContext, old, new, <<>>), oldLine |-> old, newLine |-> new]
    ELSE CASE line[1] = "+" ->
                 [dl |-> DiffLine(LineAdded, 0, new, Tail(line)), oldLine |-> old, newLine |-> new + 1]
           [] line[1] = "-" ->
                 [dl |-> DiffLine(LineRemoved, old, 0, Tail(line)), oldLine |-> old + 1, newLine |-> new]
           [] line[1] = " " ->
                 [dl |-> DiffLine(LineContext, old, new, Tail(line)), oldLine |-> old + 1, newLine |-> new + 1]
           [] OTHER ->
                 [dl |-> DiffLine(LineContext, old, new, line), oldLine |-> old + 1, newLine |-> new + 1]

\* &DiffResult{}
EmptyResult == [OldFile |-> <<>>, NewFile |-> <<>>, Hunks |-> <<>>, IsBinary |-> FALSE]

\* The locals of ParseUnifiedDiff: st.currentHunk is <<>> (nil) or <<hunk>>.
ParserStart ==
    [result |-> EmptyResult, currentHunk |-> <<>>, oldLine |-> 0, newLine |-> 0,
     inFileHeader |-> TRUE, pc |-> "scan"]

\* one iteration of "for scanner.Scan()" on the line read
ScanStep(st, line) ==
    IF binaryFileRegex(line)
    THEN [st EXCEPT !.result.IsBinary = TRUE, !.pc = "done"]
    ELSE IF st.inFileHeader
    THEN IF oldFileRegex(line) # <<>>
         THEN [st EXCEPT !.result.OldFile = oldFileRegex(line)]
         ELSE IF newFileRegex(line) # <<>>
         THEN [st EXCEPT !.result.NewFile = newFileRegex(line), !.inFileHeader = FALSE]
         ELSE st
    ELSE IF hunkHeaderRegex(line) # <<>>
    THEN [st EXCEPT !.result.Hunks = @ \o st.currentHunk,
                    !.oldLine = Atoi(hunkHeaderRegex(line)[1]),
                    !.newLine = Atoi(hunkHeaderRegex(line)[2]),
                    !.currentHunk = <<[Header |-> line, Lines |-> <<>>]>>]
    ELSE IF HasPrefixAt(line, 1, <<"\\">>)
    THEN st
    ELSE IF st.currentHunk # <<>> /\ Len(line) > 0
    THEN LET r == parseDiffLine(line, st.oldLine, st.newLine)
         IN  [st EXCEPT !.currentHunk[1].Lines = Append(@, r.dl),
                        !.oldLine = r.oldLine,
                        !.newLine = r.newLine]
    ELSE st

\* after the loop: "Don't forget the last hunk", return
ScanEnd(st) ==
    [st EXCEPT !.result.Hunks = @ \o st.currentHunk, !.pc = "done"]

\* the lines a diff text is made of
LineOld == <<"-", "-", "-", " ", "a", "/", "x">>
LineNew == <<"+", "+", "+", " ", "b", "/", "x">>
LineHunkA == <<"@", "@", " ", "-", "1", ",", "2", " ", "+", "1", ",", "2", " ", "@", "@">>
LineHunkB == <<"@", "@", " ", "-", "5", " ", "+", "7", " ", "@", "@", " ", "f">>
LineCtx == <<" ", "c">>
LineAdd == <<"+", "n">>
LineDel == <<"-", "o">>
LineEmpty == <<>>
LineNoNewline == <<"\\", " ", "N", "o">>
LineOdd == <<"x", "!">>
LineBinary == <<"B", "i", "n", "a", "r", "y", " ", "f", "i", "l", "e", "s", " ", "a", "/", "x", " ", "a", "n", "d", " ", "b", "/", "x", " ", "d", "i", "f", "f", "e", "r">>

BodyCorpus ==
    {LineOld, LineNew, LineHunkA, LineHunkB, LineCtx, LineAdd, LineDel, LineEmpty,
     LineNoNewline, LineOdd, LineBinary}

(***************************************************************************)
(* The call of ApplyHighlighting: inputs and the step.                     *)
(***************************************************************************)
\* "\x1b[1m" and "\x1b[31m", as a syntax highlighter emits them
SgrBold == <<27, 91, 49, 109>>
SgrRed == <<27, 91, 51, 49, 109>>

\* what a content is built from: 'a', U+00E9 in UTF-8 (two bytes), the byte
\* E9 (Latin-1, not valid UTF-8), and three escape sequences
ChunkSet == {<<97>>, <<195, 169>>, <<233>>, SgrBold, SgrRed, ResetSeq}

RECURSIVE ContentsOf(_)
ContentsOf(n) ==
    IF n = 0 THEN {<<>>}
    ELSE LET prev == ContentsOf(n - 1)
         IN  prev \cup {c \o ch : c \in prev, ch \in ChunkSet}

Contents == ContentsOf(MaxChunks)

Max(a, b) == IF a >= b THEN a ELSE b
Min(a, b) == IF a <= b THEN a ELSE b

\* segment offsets tried on a content: from one below 0 to one above the
\* byte length of its unstyled text
SegOffsets(s) == -1 .. (Len(StripANSI(s)) + 1)

SegSet(s) ==
    LET plain == StripANSI(s)
    IN  {Segment(a, b, t, Slice(plain, Max(a, 0), Min(b, Len(plain)))) :
            a \in SegOffsets(s), b \in SegOffsets(s), t \in {LineAdded, LineRemoved}}

RECURSIVE SegListsOf(_, _)
SegListsOf(S, n) ==
    IF n = 0 THEN {<<>>}
    ELSE LET prev == SegListsOf(S, n - 1)
         IN  prev \cup {Append(l, x) : l \in prev, x \in S}

SegLists(s) == SegListsOf({x \in SegSet(s) : x.Start <= x.End}, MaxSegs)

HighlightStyles == {BackgroundStyle(1, 2, 3), CreateHighlightStyle(<<57>>, <<49, 59, 50, 59, 51>>)}

\* no parse in progress
ParserIdle ==
    /\ input = <<>>
    /\ result = EmptyResult
    /\ currentHunk = <<>>
    /\ oldLine = 0
    /\ newLine = 0
    /\ inFileHeader = TRUE
    /\ parsePc = "idle"
    /\ scanErr = "nil"

\* no hunk being highlighted or paired
HunkIdle ==
    /\ hunk = <<>>
    /\ hi = 0
    /\ scripts = <<>>
    /\ pairs = <<>>
    /\ hunkPc = "idle"

\* the theme package as the program starts, no call made
ThemesIdle ==
    /\ availableThemes = <<>>
    /\ currentTheme = <<>>
    /\ terminalIsDark = TRUE
    /\ lastCall = [fn |-> "none", name |-> "", err |-> "nil"]
    /\ calls = 0

\* chroma returning no error
WorkingHighlighter == [styleErr |-> FALSE, errOn |-> {}]

\* no render in progress
RenderAtRest ==
    /\ rResult = EmptyResult
    /\ rView = "unified"
    /\ renderPc = "idle"
    /\ theme = <<>>
    /\ sb = <<>>
    /\ rHunk = 0
    /\ lineSlots = <<>>
    /\ wg = 0
    /\ pending = {}
    /\ exiting = {}
    /\ writers = <<>>

RenderIdle == RenderAtRest /\ highlighter = WorkingHighlighter

\* no TUI running
TuiIdle ==
    /\ ready = FALSE
    /\ windowHeight = 0
    /\ mErr = FALSE
    /\ diffResult = EmptyResult
    /\ viewMode = "unified"
    /\ scrollOffset = 0
    /\ showLineNumbers = FALSE
    /\ mode = "ModeDiff"
    /\ lastMsg = "none"
    /\ tuiPc = "idle"

\* no pipe-mode run
PipeIdle ==
    /\ noPager = FALSE
    /\ stdoutIsTerminal = FALSE
    /\ termHeight = 0
    /\ lineCount = 0
    /\ pagers = <<>>
    /\ pipeOut = <<>>
    /\ pipePc = "idle"

AppIdle == TuiIdle /\ PipeIdle

\* no renderSideBySideLine call in progress
ColumnIdle ==
    /\ colFilename = <<>>
    /\ colLine = <<>>
    /\ colOpts = [Width |-> 0, ShowLineNumbers |-> FALSE]
    /\ colIsLeft = TRUE
    /\ column = <<>>
    /\ colPc = "idle"

\* no TruncateString call in progress
TruncateIdle ==
    /\ truncStr = <<>>
    /\ truncWidth = 0
    /\ truncated = <<>>
    /\ truncPc = "idle"

\* no ApplyHighlighting call in progress
CompositorIdle ==
    /\ content = <<>>
    /\ segments = <<>>
    /\ segmentType = LineAdded
    /\ highlightStyle = <<>>
    /\ composed = <<>>
    /\ hlPc = "idle"

\* a call with any content and up to MaxSegs segments
InitCompose ==
    /\ content \in Contents
    /\ segments \in SegLists(content)
    /\ segmentType \in {LineAdded, LineRemoved}
    /\ highlightStyle = BackgroundStyle(1, 2, 3)
    /\ composed = <<>>
    /\ hlPc = "call"
    /\ ParserIdle
    /\ HunkIdle
    /\ ThemesIdle
    /\ RenderIdle
    /\ AppIdle
    /\ TruncateIdle
    /\ ColumnIdle

\* a call with any content and style and no segment
InitNoOp ==
    /\ content \in Contents
    /\ segments = <<>>
    /\ segmentType \in {LineAdded, LineRemoved}
    /\ highlightStyle \in HighlightStyles
    /\ composed = <<>>
    /\ hlPc = "call"
    /\ ParserIdle
    /\ HunkIdle
    /\ ThemesIdle
    /\ RenderIdle
    /\ AppIdle
    /\ TruncateIdle
    /\ ColumnIdle

CallApplyHighlighting ==
    /\ hlPc = "call"
    /\ composed' = ApplyHighlighting(content, segments, segmentType, highlightStyle)
    /\ hlPc' = "done"
    /\ UNCHANGED <<content, segments, segmentType, highlightStyle, parseVars, hunkVars, themeVars, renderVars, columnVars, appVars, truncVars>>

NextCompose == CallApplyHighlighting

SpecCompose == InitCompose /\ [][NextCompose]_vars
SpecNoOp == InitNoOp /\ [][NextCompose]_vars

(***************************************************************************)
(* What a terminal shows: the SGR attributes in effect at each visible     *)
(* code point of a byte string (bold, foreground, background).             *)
(***************************************************************************)
DefaultStyle == [bold |-> FALSE, fg |-> <<>>, bg |-> <<>>]

RECURSIVE DecimalOf(_, _)
DecimalOf(ds, acc) ==
    IF ds = <<>> THEN acc
    ELSE DecimalOf(Tail(ds), IF Head(ds) \in 48..57 THEN acc * 10 + Head(ds) - 48 ELSE acc)

\* the parameters of a CSI sequence, split on ';' (an empty parameter is 0)
RECURSIVE SplitParams(_, _)
SplitParams(bs, cur) ==
    IF bs = <<>> THEN <<DecimalOf(cur, 0)>>
    ELSE IF Head(bs) = 59 THEN <<DecimalOf(cur, 0)>> \o SplitParams(Tail(bs), <<>>)
    ELSE SplitParams(Tail(bs), Append(cur, Head(bs)))

RECURSIVE SelectGraphic(_, _)
SelectGraphic(st, ps) ==
    IF ps = <<>> THEN st
    ELSE LET p == Head(ps)
         IN  IF p = 0 THEN SelectGraphic(DefaultStyle, Tail(ps))
             ELSE IF p = 1 THEN SelectGraphic([st EXCEPT !.bold = TRUE], Tail(ps))
             ELSE IF p \in 30..37 THEN SelectGraphic([st EXCEPT !.fg = <<p>>], Tail(ps))
             ELSE IF p \in 40..47 THEN SelectGraphic([st EXCEPT !.bg = <<p>>], Tail(ps))
             ELSE IF p = 38 /\ Len(ps) >= 5 /\ ps[2] = 2
                  THEN SelectGraphic([st EXCEPT !.fg = <<ps[3], ps[4], ps[5]>>], SubSeq(ps, 6, Len(ps)))
             ELSE IF p = 48 /\ Len(ps) >= 5 /\ ps[2] = 2
                  THEN SelectGraphic([st EXCEPT !.bg = <<ps[3], ps[4], ps[5]>>], SubSeq(ps, 6, Len(ps)))
             ELSE SelectGraphic(st, Tail(ps))

\* the style after one escape sequence: only "ESC [ ... m" changes it
AfterEscape(st, seq) ==
    IF Len(seq) >= 3 /\ seq[2] = 91 /\ seq[Len(seq)] = 109
    THEN SelectGraphic(st, SplitParams(SubSeq(seq, 3, Len(seq) - 1), <<>>))
    ELSE st

RECURSIVE StylesFrom(_, _, _, _)
StylesFrom(s, matches, i, st) ==
    IF i >= Len(s) THEN <<>>
    ELSE LET m == MatchAt(matches, i)
         IN  IF m # <<>> THEN StylesFrom(s, matches, m[2], AfterEscape(st, Slice(s, m[1], m[2])))
             ELSE <<st>> \o StylesFrom(s, matches, i + DecodeRune(s, i).size, st)

\* the style of each visible code point of s, in order
EffectiveStyles(s) == StylesFrom(s, FindAllStringIndex(s), 0, DefaultStyle)

RECURSIVE OffsetsFrom(_, _, _, _)
OffsetsFrom(s, matches, i, off) ==
    IF i >= Len(s) THEN <<>>
    ELSE LET m == MatchAt(matches, i)
         IN  IF m # <<>> THEN OffsetsFrom(s, matches, m[2], off)
             ELSE LET n == DecodeRune(s, i).size
                  IN  <<off>> \o OffsetsFrom(s, matches, i + n, off + n)

\* the byte offset, in the unstyled text, of each visible code point of s
VisibleOffsets(s) == OffsetsFrom(s, FindAllStringIndex(s), 0, 0)

\* the background BackgroundStyle(1, 2, 3) sets
HighlightBg == <<1, 2, 3>>

Range(f) == {f[x] : x \in DOMAIN f}

\* segments as the intraline highlighter produces them: of the requested
\* kind, in range, on code point boundaries, ordered and disjoint
ProducedSegments(segs, s) ==
    LET bounds == Range(VisibleOffsets(s)) \cup {Len(StripANSI(s))}
    IN  /\ \A k \in 1..Len(segs) :
              /\ segs[k].Type = segmentType
              /\ segs[k].Start \in bounds /\ segs[k].End \in bounds
              /\ segs[k].Start <= segs[k].End
        /\ \A k \in 1..(Len(segs) - 1) : segs[k].End <= segs[k + 1].Start

InSomeSegment(off) ==
    \E j \in 1..Len(segments) :
        /\ segments[j].Type = segmentType
        /\ segments[j].Start <= off /\ off < segments[j].End

(***************************************************************************)
(* Claims about ApplyHighlighting                                          *)
(***************************************************************************)

\* C1: a visible code point is emitted inside a highlight span iff its byte
\* offset in the unstyled content lies in [Start, End) of some segment of
\* the requested kind.  Stated on the inputs most favourable to the claim:
\* content without escape sequences and segments as the intraline
\* highlighter produces them.
C1_HighlightByByteOffset ==
    (hlPc = "done" /\ FindAllStringIndex(content) = <<>> /\ ProducedSegments(segments, content))
    => LET offs == VisibleOffsets(content)
           shown == EffectiveStyles(composed)
       IN  /\ Len(shown) = Len(offs)
           /\ \A k \in 1..Len(offs) : (shown[k].bg = HighlightBg) <=> InSomeSegment(offs[k])

\* C2: removing the escape sequences from the output yields the visible
\* characters of content, in order and unchanged.
C2_VisibleTextPreserved ==
    hlPc = "done" => StripANSI(composed) = StripANSI(content)

\* C3: with an empty segment list the output is the content argument,
\* byte for byte.
C3_EmptySegmentsNoOp ==
    (hlPc = "done" /\ segments = <<>>) => composed = content

C3_Witness ==
    /\ hlPc = "done" /\ segments = <<>>
    /\ FindAllStringIndex(content) # <<>>
    /\ \E k \in 1..Len(content) : content[k] = 233
    /\ composed = content

\* C4: after a highlighted span ends at visible position p, every visible
\* character from p onward that lies in no span has the effective style
\* (all attributes set by the escape sequences before it) it has in the
\* original content.
C4_StyleRestoredAfterSpan ==
    hlPc = "done"
    => LET was == EffectiveStyles(content)
           now == EffectiveStyles(composed)
       IN  \A j \in 1..Len(segments) :
               (/\ segments[j].Type = segmentType
                /\ 0 <= segments[j].Start
                /\ segments[j].Start < segments[j].End
                /\ segments[j].End < Len(was))
               => /\ Len(now) = Len(was)
                  /\ \A p \in segments[j].End .. (Len(was) - 1) :
                         ~InSomeSegment(p) => now[p + 1] = was[p + 1]

\* [max(0, Start), min(len(content), End))
Clamped(segs, s) ==
    [k \in 1..Len(segs) |->
        [segs[k] EXCEPT !.Start = Max(0, segs[k].Start), !.End = Min(Len(s), segs[k].End)]]

\* C5: a segment with Start < 0 or End > len(content) gives the output of
\* the segment clamped to [0, len(content)].  Stated for segments that
\* still cover a byte after clamping.
C5_OutOfRangeClamped ==
    (/\ hlPc = "done"
     /\ \A k \in 1..Len(segments) :
            Max(0, segments[k].Start) < Min(Len(content), segments[k].End))
    => composed = ApplyHighlighting(content, Clamped(segments, content), segmentType, highlightStyle)


(***************************************************************************)
(* The call of ParseUnifiedDiff: the scanner hands over one line at a      *)
(* time; input records the lines read so far.                              *)
(***************************************************************************)
ParserState ==
    [result |-> result, currentHunk |-> currentHunk, oldLine |-> oldLine,
     newLine |-> newLine, inFileHeader |-> inFileHeader, pc |-> parsePc]

SetParserState(st) ==
    /\ result' = st.result
    /\ currentHunk' = st.currentHunk
    /\ oldLine' = st.oldLine
    /\ newLine' = st.newLine
    /\ inFileHeader' = st.inFileHeader
    /\ parsePc' = st.pc

InitParse ==
    /\ input = <<>>
    /\ result = ParserStart.result
    /\ currentHunk = ParserStart.currentHunk
    /\ oldLine = ParserStart.oldLine
    /\ newLine = ParserStart.newLine
    /\ inFileHeader = ParserStart.inFileHeader
    /\ parsePc = ParserStart.pc
    /\ scanErr = "nil"
    /\ CompositorIdle
    /\ HunkIdle
    /\ ThemesIdle
    /\ RenderIdle
    /\ AppIdle
    /\ TruncateIdle
    /\ ColumnIdle

\* bufio.MaxScanTokenSize: bufio.NewScanner's buffer limit.  A line of
\* fewer bytes is handed over as a token; on a line of at least that many
\* bytes Scan() returns false and Err() is bufio.ErrTooLong.
MaxScanTokenSize == 65536

\* scanner.Scan() returned true with this line
ScanLine(line) ==
    /\ parsePc = "scan"
    /\ Len(line) < MaxScanTokenSize
    /\ input' = Append(input, line)
    /\ SetParserState(ScanStep(ParserState, line))
    /\ UNCHANGED <<scanErr, hlVars, hunkVars, themeVars, renderVars, columnVars, appVars, truncVars>>

\* the next line of the text has MaxScanTokenSize bytes or more:
\* scanner.Scan() returned false, the line is never handed over, the loop
\* ends and ParseUnifiedDiff returns result, scanner.Err()
ScanTooLong ==
    /\ parsePc = "scan"
    /\ scanErr' = "ErrTooLong"
    /\ SetParserState(ScanEnd(ParserState))
    /\ UNCHANGED <<input, hlVars, hunkVars, themeVars, renderVars, columnVars, appVars, truncVars>>

\* scanner.Scan() returned false at the end of the text
EndOfInput ==
    /\ parsePc = "scan"
    /\ SetParserState(ScanEnd(ParserState))
    /\ UNCHANGED <<input, scanErr, hlVars, hunkVars, themeVars, renderVars, columnVars, appVars, truncVars>>

NextParse ==
    \/ \E line \in BodyCorpus : Len(input) < MaxLines /\ ScanLine(line)
    \/ ScanTooLong
    \/ EndOfInput

SpecParse == InitParse /\ [][NextParse]_vars

\* file-header lines: paths, and the forms a header takes
Paths == {<<"x">>, <<"d", "/", "x">>, <<"a", "/", "x">>, <<"b", "/", "x">>,
          <<"x", " ", "y">>, <<"x", " ", "1", "9", "9", "9", "-", "0", "1", "-", "0", "1">>}

Timestamp == <<"\t", "2", "0", "2", "5", "-", "0", "1", "-", "0", "1", " ", "0", "0", ":", "0", "0", ":", "0", "0">>

MarkerOld == <<"-", "-", "-", " ">>
MarkerNew == <<"+", "+", "+", " ">>
PrefixOld == <<"a", "/">>
PrefixNew == <<"b", "/">>

HeaderForms == {"bare", "prefixed", "bare+time", "prefixed+time"}

HeaderLine(marker, prefix, form, path) ==
    marker
    \o (IF form \in {"prefixed", "prefixed+time"} THEN prefix ELSE <<>>)
    \o path
    \o (IF form \in {"bare+time", "prefixed+time"} THEN Timestamp ELSE <<>>)

HeaderCorpus ==
    {HeaderLine(MarkerOld, PrefixOld, f, q) : f \in HeaderForms, q \in Paths}
    \cup {HeaderLine(MarkerNew, PrefixNew, f, q) : f \in HeaderForms, q \in Paths}
    \cup {LineHunkA, LineCtx}

NextHeaders ==
    \/ \E line \in HeaderCorpus : Len(input) < MaxHeaderLines /\ ScanLine(line)
    \/ EndOfInput

SpecHeaders == InitParse /\ [][NextHeaders]_vars

(***************************************************************************)
(* Claims about ParseUnifiedDiff                                           *)
(***************************************************************************)
\* a line was read in this step, inside a hunk
ReadInHunk ==
    /\ parsePc = "scan" /\ ~inFileHeader /\ currentHunk # <<>>
    /\ Len(input') = Len(input) + 1

LineRead == input'[Len(input')]

\* the open hunk got exactly one more line, of this kind and content
AppendedLine(kind, text) ==
    /\ currentHunk' # <<>>
    /\ Len(currentHunk'[1].Lines) = Len(currentHunk[1].Lines) + 1
    /\ SubSeq(currentHunk'[1].Lines, 1, Len(currentHunk[1].Lines)) = currentHunk[1].Lines
    /\ currentHunk'[1].Lines[Len(currentHunk'[1].Lines)].Kind = kind
    /\ currentHunk'[1].Lines[Len(currentHunk'[1].Lines)].Content = text

\* C6: a result with IsBinary = true has zero hunks, wherever the
\* "Binary files ... differ" line stood.
C6_BinaryHasNoHunks ==
    result.IsBinary => result.Hunks = <<>>

OldSide == {LineContext, LineRemoved}
NewSide == {LineContext, LineAdded}

EarlierOf(lines, k, kinds) == Cardinality({j \in 1..(k - 1) : lines[j].Kind \in kinds})

NumberedFromHeader(h) ==
    LET m == hunkHeaderRegex(h.Header)
    IN  /\ m # <<>>
        /\ \A k \in 1..Len(h.Lines) :
              /\ h.Lines[k].Kind \in OldSide
                    => h.Lines[k].OldLineNo = Atoi(m[1]) + EarlierOf(h.Lines, k, OldSide)
              /\ h.Lines[k].Kind \in NewSide
                    => h.Lines[k].NewLineNo = Atoi(m[2]) + EarlierOf(h.Lines, k, NewSide)

C7_Numbered ==
    \A h \in Range(result.Hunks) \cup Range(currentHunk) : NumberedFromHeader(h)

C7_Classified ==
    (ReadInHunk /\ LineRead # <<>>)
    => /\ LineRead[1] = "+" => AppendedLine(LineAdded, Tail(LineRead)) /\ oldLine' = oldLine
       /\ LineRead[1] = "-" => AppendedLine(LineRemoved, Tail(LineRead)) /\ newLine' = newLine
       /\ LineRead[1] = " " => AppendedLine(LineContext, Tail(LineRead))
       /\ LineRead[1] = "\\"
             => currentHunk' = currentHunk /\ oldLine' = oldLine /\ newLine' = newLine

\* C7: inside a hunk a line is classified by its first character ('+'
\* Added, '-' Removed, ' ' Context) with Content the line without the
\* marker; every line of a hunk is numbered from the hunk header, the old
\* number counting the earlier Context/Removed lines and the new number the
\* earlier Context/Added lines; an Added line leaves the old counter alone,
\* a Removed line the new counter, and a backslash line adds no line and
\* changes neither counter.
C7_ClassifiedAndNumbered ==
    [](C7_Numbered) /\ [][C7_Classified]_vars

C7_Witness ==
    /\ currentHunk # <<>>
    /\ currentHunk[1].Header = LineHunkB
    /\ Len(currentHunk[1].Lines) = 3
    /\ currentHunk[1].Lines[1] = DiffLine(LineContext, 5, 7, <<"c">>)
    /\ currentHunk[1].Lines[2] = DiffLine(LineRemoved, 6, 0, <<"o">>)
    /\ currentHunk[1].Lines[3] = DiffLine(LineAdded, 0, 8, <<"n">>)
    /\ oldLine = 7 /\ newLine = 9

\* C8: inside a hunk, an empty line and a line whose first character is
\* none of '+', '-', ' ' (and that is no backslash line, hunk header or
\* binary notice) are each recorded as a Context line whose Content is the
\* whole line.
C8_LenientContext ==
    [][(/\ ReadInHunk
        /\ LineRead = <<>> \/ LineRead[1] \notin {"+", "-", " ", "\\"}
        /\ hunkHeaderRegex(LineRead) = <<>>
        /\ ~binaryFileRegex(LineRead))
       => AppendedLine(LineContext, LineRead)]_vars

\* C9: for a non-binary input the result holds exactly one hunk per hunk
\* header line of the input, in input order, with that line as Header,
\* whether or not file-header lines precede it.
C9_OneHunkPerHeader ==
    (parsePc = "done" /\ \A i \in 1..Len(input) : ~binaryFileRegex(input[i]))
    => [k \in 1..Len(result.Hunks) |-> result.Hunks[k].Header]
         = SelectSeq(input, LAMBDA l : hunkHeaderRegex(l) # <<>>)

\* a header line of this form and path was read in this step, in the file
\* header part of the input
ReadHeader(marker, prefix, form, path) ==
    /\ parsePc = "scan" /\ inFileHeader
    /\ input' = Append(input, HeaderLine(marker, prefix, form, path))

HasSpace(path) == \E k \in 1..Len(path) : IsSpace(path[k])

\* paths the three header forms agree on: not starting with the optional
\* prefix itself, not ending in whitespace, holding no whitespace followed
\* by a date
Unambiguous(prefix, path) ==
    /\ ~HasPrefixAt(path, 1, prefix)
    /\ ~IsSpace(path[Len(path)])
    /\ \A k \in 1..Len(path) : ~TimestampAt(path, k)

\* C10 as stated, on the paths without whitespace: '--- a/p', '--- p' and
\* '--- p<whitespace><date...>' all give OldFile = p, and likewise NewFile
\* for '+++'.
C10_SamePathAllForms ==
    [][\A f \in HeaderForms : \A q \in {r \in Paths : ~HasSpace(r)} :
          /\ ReadHeader(MarkerOld, PrefixOld, f, q) => result'.OldFile = q
          /\ ReadHeader(MarkerNew, PrefixNew, f, q) => result'.NewFile = q]_vars

\* C10, amended: the same for every path that does not itself begin with
\* the optional prefix ('a/' after '---', 'b/' after '+++'), does not end
\* in whitespace and holds no whitespace followed by a dddd-dd-dd date.
C10_SamePathUnambiguous ==
    [][\A f \in HeaderForms : \A q \in Paths :
          /\ (ReadHeader(MarkerOld, PrefixOld, f, q) /\ Unambiguous(PrefixOld, q))
                => result'.OldFile = q
          /\ (ReadHeader(MarkerNew, PrefixNew, f, q) /\ Unambiguous(PrefixNew, q))
                => result'.NewFile = q]_vars

C10_Witness ==
    /\ input = <<HeaderLine(MarkerOld, PrefixOld, "prefixed+time", <<"b", "/", "x">>),
                 HeaderLine(MarkerNew, PrefixNew, "bare+time", <<"x", " ", "y">>)>>
    /\ result.OldFile = <<"b", "/", "x">>
    /\ result.NewFile = <<"x", " ", "y">>

\* C11: ParseUnifiedDiff returns a nil error for every input text, whatever
\* its syntax and the lengths of its lines.
C11_NilError ==
    parsePc = "done" => scanErr = "nil"

(***************************************************************************)
(* HighlightIntralineChanges and PairLines on one hunk.  Content is a byte *)
(* string, as in ApplyHighlighting.                                        *)
(***************************************************************************)
\* diffmatchpatch.Diff and its operations
DiffEqual == "DiffEqual"
DiffDelete == "DiffDelete"
DiffInsert == "DiffInsert"

Diff(type, text) == [Type |-> type, Text |-> text]

\* []rune(s): the code points of s, each held as the bytes Go encodes it to
\* (a byte that does not decode is U+FFFD, EF BF BD)
RECURSIVE RunesFrom(_, _)
RunesFrom(s, i) ==
    IF i >= Len(s) THEN <<>>
    ELSE LET r == DecodeRune(s, i) IN <<r.enc>> \o RunesFrom(s, i + r.size)

Runes(s) == RunesFrom(s, 0)

\* string(runes)
RECURSIVE StringOf(_)
StringOf(rs) == IF rs = <<>> THEN <<>> ELSE Head(rs) \o StringOf(Tail(rs))

\* the number of leading code points two texts share
RECURSIVE CommonPrefix(_, _)
CommonPrefix(a, b) ==
    IF a # <<>> /\ b # <<>> /\ Head(a) = Head(b) THEN 1 + CommonPrefix(Tail(a), Tail(b)) ELSE 0

\* the edit scripts between code point sequences a and b: operations with a
\* non-empty text, no two neighbours of one type, whose equal+delete texts
\* give a and whose equal+insert texts give b
RECURSIVE EditScripts(_, _, _)
EditScripts(a, b, last) ==
    (IF a = <<>> /\ b = <<>> THEN {<<>>} ELSE {})
    \cup (IF last = DiffEqual THEN {}
          ELSE UNION {{<<Diff(DiffEqual, StringOf(SubSeq(a, 1, n)))>> \o r :
                          r \in EditScripts(SubSeq(a, n + 1, Len(a)), SubSeq(b, n + 1, Len(b)), DiffEqual)} :
                      n \in 1..CommonPrefix(a, b)})
    \cup (IF last = DiffDelete THEN {}
          ELSE UNION {{<<Diff(DiffDelete, StringOf(SubSeq(a, 1, n)))>> \o r :
                          r \in EditScripts(SubSeq(a, n + 1, Len(a)), b, DiffDelete)} :
                      n \in 1..Len(a)})
    \cup (IF last = DiffInsert THEN {}
          ELSE UNION {{<<Diff(DiffInsert, StringOf(SubSeq(b, 1, n)))>> \o r :
                          r \in EditScripts(a, SubSeq(b, n + 1, Len(b)), DiffInsert)} :
                      n \in 1..Len(b)})

\* dmp.DiffMain(text1, text2, false) followed by dmp.DiffCleanupSemantic:
\* the library diffs []rune(text1) against []rune(text2) and returns the
\* operations' texts as strings; which of the edit scripts it returns is
\* left open
DiffMain(text1, text2) == EditScripts(Runes(text1), Runes(text2), "none")

\* the loop over diffs with the DiffEqual case advancing newPos only
RECURSIVE BuildSegments_EqualKeepsOldPos(_, _, _, _)
BuildSegments_EqualKeepsOldPos(diffs, oldPos, newPos, acc) ==
    IF diffs = <<>> THEN acc
    ELSE LET d == Head(diffs)
             n == Len(d.Text)
         IN  CASE d.Type = DiffDelete ->
                    BuildSegments_EqualKeepsOldPos(Tail(diffs), oldPos + n, newPos,
                        [acc EXCEPT !.old = Append(@, Segment(oldPos, oldPos + n, LineRemoved, d.Text))])
               [] d.Type = DiffInsert ->
                    BuildSegments_EqualKeepsOldPos(Tail(diffs), oldPos, newPos + n,
                        [acc EXCEPT !.new = Append(@, Segment(newPos, newPos + n, LineAdded, d.Text))])
               [] d.Type = DiffEqual ->
                    BuildSegments_EqualKeepsOldPos(Tail(diffs), oldPos, newPos + n, acc)

\* "for _, diff := range diffs": acc = [old |-> oldSegments, new |-> newSegments]
RECURSIVE BuildSegments(_, _, _, _)
BuildSegments(diffs, oldPos, newPos, acc) ==
    IF diffs = <<>> THEN acc
    ELSE LET d == Head(diffs)
             n == Len(d.Text)
         IN  CASE d.Type = DiffDelete ->
                    BuildSegments(Tail(diffs), oldPos + n, newPos,
                        [acc EXCEPT !.old = Append(@, Segment(oldPos, oldPos + n, LineRemoved, d.Text))])
               [] d.Type = DiffInsert ->
                    BuildSegments(Tail(diffs), oldPos, newPos + n,
                        [acc EXCEPT !.new = Append(@, Segment(newPos, newPos + n, LineAdded, d.Text))])
               [] d.Type = DiffEqual ->
                    BuildSegments(Tail(diffs), oldPos + n, newPos + n, acc)

\* the pair test with the test of the next line's kind left out
IsChangePair_AnyNext(lines, i) ==
    /\ i + 1 < Len(lines)
    /\ lines[i + 1].Kind = LineRemoved

\* i+1 < len(h.Lines) && h.Lines[i].Kind == LineRemoved &&
\* h.Lines[i+1].Kind == LineAdded, for Go's 0-based i
IsChangePair(lines, i) ==
    /\ i + 1 < Len(lines)
    /\ lines[i + 1].Kind = LineRemoved
    /\ lines[i + 2].Kind = LineAdded

\* LinePair: Left and Right point into the line storage; a pointer is held
\* as the 1-based position of the line it points to, nil as 0
LinePair(left, right) == [Left |-> left, Right |-> right]

\* the Removed case always taking its "Deletion only" branch
RECURSIVE PairLinesFrom_NoLookahead(_, _)
PairLinesFrom_NoLookahead(lines, i) ==
    IF i >= Len(lines) THEN <<>>
    ELSE CASE lines[i + 1].Kind = LineRemoved ->
                <<LinePair(i + 1, 0)>> \o PairLinesFrom_NoLookahead(lines, i + 1)
           [] lines[i + 1].Kind = LineAdded ->
                <<LinePair(0, i + 1)>> \o PairLinesFrom_NoLookahead(lines, i + 1)
           [] lines[i + 1].Kind = LineContext ->
                <<LinePair(i + 1, i + 1)>> \o PairLinesFrom_NoLookahead(lines, i + 1)

\* "for i < len(lines)" from Go's 0-based i
RECURSIVE PairLinesFrom(_, _)
PairLinesFrom(lines, i) ==
    IF i >= Len(lines) THEN <<>>
    ELSE CASE lines[i + 1].Kind = LineRemoved ->
                IF i + 1 < Len(lines) /\ lines[i + 2].Kind = LineAdded
                THEN <<LinePair(i + 1, i + 2)>> \o PairLinesFrom(lines, i + 2)
                ELSE <<LinePair(i + 1, 0)>> \o PairLinesFrom(lines, i + 1)
           [] lines[i + 1].Kind = LineAdded ->
                <<LinePair(0, i + 1)>> \o PairLinesFrom(lines, i + 1)
           [] lines[i + 1].Kind = LineContext ->
                <<LinePair(i + 1, i + 1)>> \o PairLinesFrom(lines, i + 1)

PairLines(lines) == PairLinesFrom(lines, 0)

\* the contents of a hunk's lines: "", "ab", "ac", U+00E9 in UTF-8 and the
\* byte E9 (Latin-1, not valid UTF-8)
HunkTexts == {<<>>, <<97, 98>>, <<97, 99>>, <<195, 169>>, <<233>>}

RECURSIVE RawLines(_)
RawLines(n) ==
    IF n = 0 THEN {<<>>}
    ELSE LET prev == RawLines(n - 1)
         IN  prev \cup {Append(l, <<k, t>>) : l \in prev,
                            k \in {LineContext, LineAdded, LineRemoved}, t \in HunkTexts}

\* the lines as parseDiffLine numbers them, from a header "@@ -1 +1 @@"
RECURSIVE NumberedFrom(_, _, _)
NumberedFrom(raw, old, new) ==
    IF raw = <<>> THEN <<>>
    ELSE LET k == Head(raw)[1]
             t == Head(raw)[2]
         IN  CASE k = LineAdded -> <<DiffLine(k, 0, new, t)>> \o NumberedFrom(Tail(raw), old, new + 1)
               [] k = LineRemoved -> <<DiffLine(k, old, 0, t)>> \o NumberedFrom(Tail(raw), old + 1, new)
               [] k = LineContext -> <<DiffLine(k, old, new, t)>> \o NumberedFrom(Tail(raw), old + 1, new + 1)

HunkLines == {NumberedFrom(raw, 1, 1) : raw \in RawLines(MaxHunkLines)}

NoScript == [used |-> FALSE, diffs |-> <<>>]

InitHunk ==
    /\ hunk \in HunkLines
    /\ hi = 0
    /\ scripts = [k \in 1..Len(hunk) |-> NoScript]
    /\ pairs = <<>>
    /\ hunkPc = "highlight"
    /\ CompositorIdle
    /\ ParserIdle
    /\ ThemesIdle
    /\ RenderIdle
    /\ AppIdle
    /\ TruncateIdle
    /\ ColumnIdle

\* one iteration of the loop at a Removed line followed by an Added line
HighlightPair ==
    /\ hunkPc = "highlight"
    /\ hi < Len(hunk)
    /\ IsChangePair(hunk, hi)
    /\ \E diffs \in DiffMain(hunk[hi + 1].Content, hunk[hi + 2].Content) :
          LET segs == BuildSegments(diffs, 0, 0, [old |-> <<>>, new |-> <<>>])
          IN  /\ hunk' = [hunk EXCEPT ![hi + 1].Segments = segs.old,
                                      ![hi + 2].Segments = segs.new]
              /\ scripts' = [scripts EXCEPT ![hi + 1] = [used |-> TRUE, diffs |-> diffs]]
    /\ hi' = hi + 2
    /\ UNCHANGED <<pairs, hunkPc, hlVars, parseVars, themeVars, renderVars, columnVars, appVars, truncVars>>

\* one iteration of the loop at any other line
HighlightSkip ==
    /\ hunkPc = "highlight"
    /\ hi < Len(hunk)
    /\ ~IsChangePair(hunk, hi)
    /\ hi' = hi + 1
    /\ UNCHANGED <<hunk, scripts, pairs, hunkPc, hlVars, parseVars, themeVars, renderVars, columnVars, appVars, truncVars>>

\* the loop ends
HighlightReturn ==
    /\ hunkPc = "highlight"
    /\ hi >= Len(hunk)
    /\ hunkPc' = "pair"
    /\ UNCHANGED <<hunk, hi, scripts, pairs, hlVars, parseVars, themeVars, renderVars, columnVars, appVars, truncVars>>

\* renderSideBySideHunk: pairs := PairLines(hunk.Lines)
CallPairLines ==
    /\ hunkPc = "pair"
    /\ pairs' = PairLines(hunk)
    /\ hunkPc' = "done"
    /\ UNCHANGED <<hunk, hi, scripts, hlVars, parseVars, themeVars, renderVars, columnVars, appVars, truncVars>>

NextHunk == HighlightPair \/ HighlightSkip \/ HighlightReturn \/ CallPairLines

SpecHunk == InitHunk /\ [][NextHunk]_vars

(***************************************************************************)
(* Claims about HighlightIntralineChanges and PairLines                    *)
(***************************************************************************)
\* the texts of the operations of these types, concatenated
RECURSIVE Concat(_, _)
Concat(diffs, types) ==
    IF diffs = <<>> THEN <<>>
    ELSE (IF Head(diffs).Type \in types THEN Head(diffs).Text ELSE <<>>) \o Concat(Tail(diffs), types)

\* the diff primitive's contract
Conforms(diffs, old, new) ==
    /\ Concat(diffs, {DiffEqual, DiffDelete}) = old
    /\ Concat(diffs, {DiffEqual, DiffInsert}) = new

\* for each byte of one side of a script, whether it belongs to an
\* operation of type own (and not to an equal operation)
RECURSIVE Marks(_, _)
Marks(diffs, own) ==
    IF diffs = <<>> THEN <<>>
    ELSE (IF Head(diffs).Type \in {DiffEqual, own}
          THEN [j \in 1..Len(Head(diffs).Text) |-> Head(diffs).Type = own]
          ELSE <<>>) \o Marks(Tail(diffs), own)

CoveredBy(segs, p) == \E j \in 1..Len(segs) : segs[j].Start <= p /\ p < segs[j].End

ExactCover(line, diffs, own) ==
    /\ \A p \in 0..(Len(line.Content) - 1) :
          CoveredBy(line.Segments, p) <=> Marks(diffs, own)[p + 1]
    /\ \A j \in 1..Len(line.Segments) :
          /\ line.Segments[j].Start <= line.Segments[j].End
          /\ line.Segments[j].Text = Slice(line.Content, line.Segments[j].Start, line.Segments[j].End)
    /\ [j \in 1..Len(line.Segments) |-> line.Segments[j].Text]
          = [j \in 1..Len(SelectSeq(diffs, LAMBDA d : d.Type = own)) |->
                SelectSeq(diffs, LAMBDA d : d.Type = own)[j].Text]

\* C12: for a Removed/Added pair and an edit script that meets the diff
\* primitive's contract on the two contents, the Removed line's segments
\* cover exactly the deleted substrings and the Added line's segments
\* exactly the inserted ones, each with Text = Content[Start:End]; no byte
\* of an equal operation is covered on either line.
C12_SegmentsCoverEdits ==
    \A k \in 1..Len(scripts) :
        (/\ scripts[k].used
         /\ Conforms(scripts[k].diffs, hunk[k].Content, hunk[k + 1].Content))
        => /\ ExactCover(hunk[k], scripts[k].diffs, DiffDelete)
           /\ ExactCover(hunk[k + 1], scripts[k].diffs, DiffInsert)

C12_Witness ==
    /\ hunkPc = "done"
    /\ Len(hunk) >= 2
    /\ hunk[1].Kind = LineRemoved /\ hunk[1].Content = <<97, 98>>
    /\ hunk[2].Kind = LineAdded /\ hunk[2].Content = <<97, 99>>
    /\ scripts[1] = [used |-> TRUE,
                     diffs |-> <<Diff(DiffEqual, <<97>>), Diff(DiffDelete, <<98>>), Diff(DiffInsert, <<99>>)>>]
    /\ hunk[1].Segments = <<Segment(1, 2, LineRemoved, <<98>>)>>
    /\ hunk[2].Segments = <<Segment(1, 2, LineAdded, <<99>>)>>

WellFormedSegments(line) ==
    /\ \A j \in 1..Len(line.Segments) :
          /\ 0 <= line.Segments[j].Start
          /\ line.Segments[j].Start <= line.Segments[j].End
          /\ line.Segments[j].End <= Len(line.Content)
          /\ line.Segments[j].Type = line.Kind
    /\ \A j \in 1..(Len(line.Segments) - 1) :
          /\ line.Segments[j].End <= line.Segments[j + 1].Start
          /\ line.Segments[j].Start < line.Segments[j + 1].Start

\* C13: every segment of every line has 0 <= Start <= End <= len(Content)
\* of its own line and the kind of its line; the segments of one line do
\* not overlap and are in strictly increasing offset order.
C13_SegmentsInRange ==
    \A k \in 1..Len(hunk) : WellFormedSegments(hunk[k])

\* line k (1-based) is one of the two lines of a Removed line directly
\* followed by an Added line
RemovedThenAdded(lines, k) ==
    /\ k < Len(lines)
    /\ lines[k].Kind = LineRemoved
    /\ lines[k + 1].Kind = LineAdded

InChangePair(lines, k) ==
    \/ RemovedThenAdded(lines, k)
    \/ k > 1 /\ RemovedThenAdded(lines, k - 1)

\* C14: only the two lines of a Removed line directly followed by an Added
\* line get segments, and every such pair is diffed: Context lines, a
\* Removed line not directly followed by an Added line and an Added line
\* not directly preceded by a Removed line keep an empty segment list.
C14_OnlyAdjacentPairs ==
    /\ \A k \in 1..Len(hunk) : ~InChangePair(hunk, k) => hunk[k].Segments = <<>>
    /\ \A k \in 1..Len(hunk) : scripts[k].used => RemovedThenAdded(hunk, k)
    /\ hunkPc \in {"pair", "done"}
          => \A k \in 1..Len(hunk) : RemovedThenAdded(hunk, k) => scripts[k].used

C14_Witness ==
    /\ hunkPc = "done"
    /\ Len(hunk) = 3
    /\ hunk[1].Kind = LineRemoved /\ hunk[2].Kind = LineRemoved /\ hunk[3].Kind = LineAdded
    /\ hunk[1].Segments = <<>>
    /\ hunk[2].Segments # <<>>
    /\ hunk[3].Segments # <<>>

\* the pair PairLines' policy gives for line k, and no pair for the Added
\* line of a Removed/Added pair
PolicyPair(lines, k) ==
    CASE lines[k].Kind = LineContext -> <<LinePair(k, k)>>
      [] lines[k].Kind = LineRemoved ->
            IF RemovedThenAdded(lines, k) THEN <<LinePair(k, k + 1)>> ELSE <<LinePair(k, 0)>>
      [] lines[k].Kind = LineAdded ->
            IF k > 1 /\ RemovedThenAdded(lines, k - 1) THEN <<>> ELSE <<LinePair(0, k)>>

RECURSIVE PolicyPairs(_, _)
PolicyPairs(lines, k) ==
    IF k > Len(lines) THEN <<>> ELSE PolicyPair(lines, k) \o PolicyPairs(lines, k + 1)

References(pr) == {pr.Left, pr.Right} \ {0}

\* C15: PairLines yields, in line order, (removed, added) for a Removed line
\* directly followed by an Added line, (removed, nil) for any other Removed
\* line, (nil, added) for any other Added line and (line, line) for a
\* Context line; every line is referenced by exactly one pair, and the
\* pairs point into the hunk's own lines.
C15_PairPolicy ==
    hunkPc = "done"
    => /\ pairs = PolicyPairs(hunk, 1)
       /\ \A k \in 1..Len(hunk) :
             Cardinality({j \in 1..Len(pairs) : k \in References(pairs[j])}) = 1
       /\ \A j \in 1..Len(pairs) : References(pairs[j]) \subseteq 1..Len(hunk)
       /\ \A j \in 1..(Len(pairs) - 1) :
             \A a \in References(pairs[j]) : \A b \in References(pairs[j + 1]) : a < b

C15_Witness ==
    /\ hunkPc = "done"
    /\ [k \in 1..Len(hunk) |-> hunk[k].Kind] = <<LineRemoved, LineAdded, LineContext>>
    /\ pairs = <<LinePair(1, 2), LinePair(3, 3)>>

(***************************************************************************)
(* Package themes.  availableThemes is <<>> (a nil map) or <<names>>;      *)
(* currentTheme is <<>> (nil) or <<colors>>.  The theme files are not part *)
(* of the source: resolved colors are held as the theme and the variant    *)
(* they were resolved from.                                                *)
(***************************************************************************)
\* calls the program makes to the theme package and the renderer
MaxCalls == 4

\* loadEmbeddedThemes: the embedded themes (two of the eight)
EmbeddedThemes == {"dracula", "nord"}

\* names a caller asks for
RequestedThemes == EmbeddedThemes \cup {"nonexistent"}

\* resolveTheme(theme): every color is looked up under the variant
\* terminalIsDark selects at the time of the call
resolveTheme(name, dark) ==
    [theme |-> name, variant |-> IF dark THEN "dark" ELSE "light"]

\* getDefaultTheme()
getDefaultTheme == [theme |-> "default", variant |-> "dark"]

\* GetCurrentTheme without its nil test
GetCurrentTheme_NoDefault(cur) == cur

\* GetCurrentTheme(): the pointer returned, for currentTheme = cur
GetCurrentTheme(cur) == IF cur = <<>> THEN <<getDefaultTheme>> ELSE cur

\* SetTheme(name) on the globals avail, cur, dark: the new currentTheme and
\* the error returned
SetThemeOn(name, avail, cur, dark) ==
    IF avail # <<>> /\ name \in avail[1]
    THEN [currentTheme |-> <<resolveTheme(name, dark)>>, err |-> "nil"]
    ELSE [currentTheme |-> cur, err |-> "theme not found"]

\* Initialize(): the globals after the call, when detectTerminalBackground
\* finds the terminal dark or not
InitializeOn(cur, dark) ==
    [availableThemes |-> <<EmbeddedThemes>>,
     terminalIsDark |-> dark,
     currentTheme |-> SetThemeOn("dracula", <<EmbeddedThemes>>, cur, dark).currentTheme,
     err |-> SetThemeOn("dracula", <<EmbeddedThemes>>, cur, dark).err]

\* the program is not inside a render call
NotRendering == renderPc \in {"idle", "done"}

\* themes.Initialize() called by the program
Initialize ==
    /\ NotRendering
    /\ calls < MaxCalls
    /\ \E dark \in BOOLEAN :
          LET g == InitializeOn(currentTheme, dark)
          IN  /\ availableThemes' = g.availableThemes
              /\ terminalIsDark' = g.terminalIsDark
              /\ currentTheme' = g.currentTheme
              /\ lastCall' = [fn |-> "Initialize", name |-> "", err |-> g.err]
    /\ calls' = calls + 1
    /\ UNCHANGED <<renderVars, hlVars, parseVars, hunkVars, columnVars, appVars, truncVars>>

\* themes.SetTheme(name) called by the program
SetTheme(name) ==
    /\ NotRendering
    /\ calls < MaxCalls
    /\ LET r == SetThemeOn(name, availableThemes, currentTheme, terminalIsDark)
       IN  /\ currentTheme' = r.currentTheme
           /\ lastCall' = [fn |-> "SetTheme", name |-> name, err |-> r.err]
    /\ calls' = calls + 1
    /\ UNCHANGED <<availableThemes, terminalIsDark, renderVars, hlVars, parseVars, hunkVars, columnVars, appVars, truncVars>>

(***************************************************************************)
(* RenderUnifiedDiff and RenderSideBySideDiff.  What is written to a       *)
(* strings.Builder is held as a sequence of items, an item naming what was *)
(* rendered and every value its bytes are computed from.                   *)
(***************************************************************************)
Item(kind, text, dl, colors, syntax, opts) ==
    [item |-> kind, text |-> text, line |-> dl, colors |-> colors, syntax |-> syntax, opts |-> opts]

NoOpts == [Width |-> 0, ShowLineNumbers |-> FALSE]

Newline == Item("newline", <<>>, <<>>, <<>>, <<>>, NoOpts)
Separator == Item("separator", <<>>, <<>>, <<>>, <<>>, NoOpts)

\* strings.TrimSpace(line) == "", on bytes
IsBlank(text) == \A k \in 1..Len(text) : text[k] \in {9, 10, 11, 12, 13, 32}

\* what chroma can do: chroma.NewXMLStyle returns an error or not, and
\* lexer.Tokenise or formatter.Format return an error on the sources in
\* errOn
Highlighters == {[styleErr |-> e, errOn |-> f] : e \in BOOLEAN, f \in SUBSET {<<97>>}}

\* styles.Get("monokai")
Monokai == [theme |-> "monokai", variant |-> "dark"]

\* themes.SyntaxHighlight(source, filename), cur being currentTheme at the
\* time of the call: the style is built by GenerateChromaStyle(), which
\* reads GetCurrentTheme(), or is monokai when that fails; the text
\* returned is held as the style it is coloured with, <<>> standing for
\* source as it is
SyntaxHighlight(source, cur) ==
    LET style == IF highlighter.styleErr THEN <<Monokai>> ELSE GetCurrentTheme(cur)
    IN  IF source \in highlighter.errOn
        THEN [out |-> <<>>, err |-> "error"]
        ELSE [out |-> style, err |-> "nil"]

\* SyntaxHighlightLine returning coloured text whatever the error
SyntaxHighlightLine_StyledOnError(text, cur) ==
    IF IsBlank(text) THEN <<>>
    ELSE IF highlighter.styleErr THEN <<Monokai>> ELSE GetCurrentTheme(cur)

\* themes.SyntaxHighlightLine(line, filename): a blank line is returned as
\* it is, and so is a line SyntaxHighlight returns an error for
SyntaxHighlightLine(text, cur) ==
    IF IsBlank(text) THEN <<>>
    ELSE LET r == SyntaxHighlight(text, cur)
         IN  IF r.err # "nil" THEN <<>> ELSE r.out

\* renderUnifiedLine(filename, dl, theme, opts), cur being currentTheme at
\* the time of the call
renderUnifiedLine(filename, dl, colors, opts, cur) ==
    Item("line", <<>>, <<dl>>, colors,
         IF filename # <<>> /\ dl.Kind = LineContext THEN SyntaxHighlightLine(dl.Content, cur) ELSE <<>>,
         opts)

\* max(40, Width/2)
HalfWidth(opts) == IF opts.Width \div 2 < 40 THEN 40 ELSE opts.Width \div 2

\* renderSideBySideLine(filename, dl, theme, opts, width, isLeft) as an
\* item: side is <<>> for dl == nil, else <<dl>>
SideBySideItem(filename, side, colors, opts, isLeft, cur) ==
    Item(IF isLeft THEN "left" ELSE "right", <<>>, side, colors,
         IF side # <<>> /\ filename # <<>> /\ side[1].Kind = LineContext
         THEN SyntaxHighlightLine(side[1].Content, cur) ELSE <<>>,
         opts)

\* headerStyle.Render(hunk.Header), "\n"
HeaderItems(h, colors) ==
    <<Item("header", h.Header, <<>>, colors, <<>>, NoOpts), Newline>>

\* "for _, line := range lines": each line, "\n"
RECURSIVE JoinLines(_)
JoinLines(ls) ==
    IF ls = <<>> THEN <<>> ELSE Head(ls) \o <<Newline>> \o JoinLines(Tail(ls))

PointedLine(ls, ptr) == IF ptr = 0 THEN <<>> ELSE <<ls[ptr]>>

\* renderSideBySideHunk, "Render each pair"
RECURSIVE PairItems(_, _, _, _, _, _)
PairItems(res, ls, prs, colors, opts, cur) ==
    IF prs = <<>> THEN <<>>
    ELSE <<SideBySideItem(res.OldFile, PointedLine(ls, Head(prs).Left), colors, opts, TRUE, cur),
           Separator,
           SideBySideItem(res.NewFile, PointedLine(ls, Head(prs).Right), colors, opts, FALSE, cur),
           Newline>>
         \o PairItems(res, ls, Tail(prs), colors, opts, cur)

\* wg.Wait() returning with one worker still running
WaitReturns_Early(counter) == counter <= 1

\* wg.Wait() returns when the counter is zero
WaitReturns(counter) == counter = 0

RenderOpts == [Width |-> 80, ShowLineNumbers |-> TRUE]

\* RenderUnifiedDiff / RenderSideBySideDiff up to the loop over the hunks:
\* the binary notice, or themes.Initialize(), theme := GetCurrentTheme()
\* and HighlightIntralineChanges on every hunk (the results rendered hold
\* no Removed line directly followed by an Added line, which leaves their
\* hunks as they are)
RenderBegin(res, view) ==
    /\ NotRendering
    /\ calls < MaxCalls
    /\ calls' = calls + 1
    /\ rResult' = res
    /\ rView' = view
    /\ rHunk' = 0
    /\ lineSlots' = <<>>
    /\ wg' = 0
    /\ pending' = {}
    /\ exiting' = {}
    /\ writers' = <<>>
    /\ IF res.IsBinary
       THEN /\ sb' = <<Item("binary", res.OldFile \o res.NewFile, <<>>, <<>>, <<>>, NoOpts)>>
            /\ renderPc' = "done"
            /\ theme' = <<>>
            /\ lastCall' = [fn |-> "Render", name |-> "", err |-> "nil"]
            /\ UNCHANGED <<availableThemes, currentTheme, terminalIsDark>>
       ELSE /\ \E dark \in BOOLEAN :
                  LET g == InitializeOn(currentTheme, dark)
                  IN  /\ availableThemes' = g.availableThemes
                      /\ terminalIsDark' = g.terminalIsDark
                      /\ currentTheme' = g.currentTheme
                      /\ theme' = GetCurrentTheme(g.currentTheme)
            /\ sb' = <<>>
            /\ renderPc' = IF res.Hunks = <<>> THEN "done" ELSE "hunk"
            /\ lastCall' = [fn |-> "Render", name |-> "", err |-> "nil"]
    /\ UNCHANGED <<highlighter, hlVars, parseVars, hunkVars, columnVars, appVars, truncVars>>

CurrentHunk == rResult.Hunks[rHunk + 1]

\* renderUnifiedHunk up to wg.Wait(): the header, lines := make(...),
\* wg.Add(len(hunk.Lines)) and one goroutine started per line
SpawnWorkers ==
    /\ renderPc = "hunk"
    /\ rView = "unified"
    /\ sb' = sb \o HeaderItems(CurrentHunk, theme)
    /\ lineSlots' = [k \in 1..Len(CurrentHunk.Lines) |-> <<>>]
    /\ writers' = [k \in 1..Len(CurrentHunk.Lines) |-> <<>>]
    /\ wg' = Len(CurrentHunk.Lines)
    /\ pending' = 1..Len(CurrentHunk.Lines)
    /\ exiting' = {}
    /\ renderPc' = "wait"
    /\ UNCHANGED <<rResult, rView, theme, rHunk, highlighter, themeVars, hlVars, parseVars, hunkVars, columnVars, appVars, truncVars>>

\* the slot every worker writes when the workers share one index
SlotOf_Shared(idx) == 1

\* go func(idx int, dl DiffLine) {...}(i, line): the slot the worker
\* started for line idx writes
SlotOf(idx) == idx

\* one worker: lines[idx] = renderUnifiedLine(filename, dl, theme, opts)
Worker(idx) ==
    /\ renderPc = "wait"
    /\ idx \in pending
    /\ lineSlots' = [lineSlots EXCEPT ![SlotOf(idx)] =
                        <<renderUnifiedLine(rResult.NewFile, CurrentHunk.Lines[idx], theme,
                                            RenderOpts, currentTheme)>>]
    /\ writers' = [writers EXCEPT ![SlotOf(idx)] = Append(@, idx)]
    /\ pending' = pending \ {idx}
    /\ exiting' = exiting \cup {idx}
    /\ UNCHANGED <<rResult, rView, renderPc, theme, sb, rHunk, wg, highlighter, themeVars, hlVars, parseVars, hunkVars, columnVars, appVars, truncVars>>

\* one worker returns: the deferred wg.Done()
WorkerDone(idx) ==
    /\ renderPc = "wait"
    /\ idx \in exiting
    /\ wg' = wg - 1
    /\ exiting' = exiting \ {idx}
    /\ UNCHANGED <<rResult, rView, renderPc, theme, sb, rHunk, lineSlots, writers, pending, highlighter, themeVars, hlVars, parseVars, hunkVars, columnVars, appVars, truncVars>>

\* the loop over the hunks moves on
AfterHunk ==
    /\ rHunk' = rHunk + 1
    /\ renderPc' = IF rHunk + 1 < Len(rResult.Hunks) THEN "hunk" ELSE "done"

\* wg.Wait() returned: the lines are joined in index order, and "\n"
JoinLinesOfHunk ==
    /\ renderPc = "wait"
    /\ WaitReturns(wg)
    /\ sb' = sb \o JoinLines(lineSlots) \o <<Newline>>
    /\ AfterHunk
    /\ UNCHANGED <<rResult, rView, theme, lineSlots, wg, pending, exiting, writers, highlighter, themeVars, hlVars, parseVars, hunkVars, columnVars, appVars, truncVars>>

\* renderSideBySideHunk, and "\n"
RenderSideBySideHunk ==
    /\ renderPc = "hunk"
    /\ rView = "side-by-side"
    /\ sb' = sb \o HeaderItems(CurrentHunk, theme)
                \o PairItems(rResult, CurrentHunk.Lines, PairLines(CurrentHunk.Lines), theme,
                             RenderOpts, currentTheme)
                \o <<Newline>>
    /\ AfterHunk
    /\ UNCHANGED <<rResult, rView, theme, lineSlots, wg, pending, exiting, writers, highlighter, themeVars, hlVars, parseVars, hunkVars, columnVars, appVars, truncVars>>

\* themes.SetTheme(name) called by another goroutine while the workers run
SetThemeDuringRender(name) ==
    /\ renderPc = "wait"
    /\ LET r == SetThemeOn(name, availableThemes, currentTheme, terminalIsDark)
       IN  /\ currentTheme' = r.currentTheme
           /\ lastCall' = [fn |-> "SetTheme", name |-> name, err |-> r.err]
    /\ UNCHANGED <<availableThemes, terminalIsDark, calls, renderVars, hlVars, parseVars, hunkVars, columnVars, appVars, truncVars>>

\* lines of the hunk whose workers are studied
MaxRenderLines == 2

\* lines to render: two Context lines, a blank Context line, an Added and
\* a Removed line
RenderLineValues ==
    {<<LineContext, <<97>>>>, <<LineContext, <<98>>>>, <<LineContext, <<>>>>,
     <<LineAdded, <<97>>>>, <<LineRemoved, <<97>>>>}

RECURSIVE RawRenderLines(_)
RawRenderLines(n) ==
    IF n = 0 THEN {<<>>}
    ELSE LET prev == RawRenderLines(n - 1)
         IN  prev \cup {Append(l, v) : l \in prev, v \in RenderLineValues}

\* hunks HighlightIntralineChanges leaves as they are
RenderHunks(n) ==
    {[Header |-> LineHunkA, Lines |-> ls] :
        ls \in {NumberedFrom(raw, 1, 1) : raw \in {r \in RawRenderLines(n) :
                    \A i \in 0..Len(r) : ~(i + 1 < Len(r) /\ r[i + 1][1] = LineRemoved
                                            /\ r[i + 2][1] = LineAdded)}}}

BinaryResult == [OldFile |-> <<"x">>, NewFile |-> <<"x">>, Hunks |-> <<>>, IsBinary |-> TRUE]

\* results to render: binary, without hunk, one hunk of up to
\* MaxRenderLines lines, two hunks of up to one line
RenderResults ==
    {BinaryResult}
    \cup {[OldFile |-> f, NewFile |-> f, Hunks |-> hs, IsBinary |-> FALSE] :
             f \in {<<>>, <<"x">>},
             hs \in {<<>>} \cup {<<h>> : h \in RenderHunks(MaxRenderLines)}
                           \cup {<<h, g>> : h \in RenderHunks(1), g \in RenderHunks(1)}}

\* results rendered in the study of the theme package
ThemeStudyResults ==
    {r \in RenderResults : Len(r.Hunks) <= 1 /\ r.NewFile = <<"x">>
                           /\ \A k \in 1..Len(r.Hunks) : Len(r.Hunks[k].Lines) <= 1}

Views == {"unified", "side-by-side"}

RenderSteps ==
    \/ SpawnWorkers
    \/ \E idx \in 1..Len(lineSlots) : Worker(idx)
    \/ \E idx \in 1..Len(lineSlots) : WorkerDone(idx)
    \/ JoinLinesOfHunk
    \/ RenderSideBySideHunk

\* the program from its start: any calls to the theme package and renders
InitThemes ==
    /\ ThemesIdle
    /\ RenderIdle
    /\ AppIdle
    /\ TruncateIdle
    /\ CompositorIdle
    /\ ParserIdle
    /\ HunkIdle
    /\ ColumnIdle

NextThemes ==
    \/ Initialize
    \/ \E name \in RequestedThemes : SetTheme(name)
    \/ \E res \in ThemeStudyResults, view \in Views : RenderBegin(res, view)
    \/ RenderSteps

SpecThemes == InitThemes /\ [][NextThemes]_vars

\* the program after Initialize() and SetTheme(name), with one call left
InitWorkers ==
    /\ availableThemes = <<EmbeddedThemes>>
    /\ terminalIsDark \in BOOLEAN
    /\ \E name \in EmbeddedThemes :
          /\ currentTheme = <<resolveTheme(name, terminalIsDark)>>
          /\ lastCall = [fn |-> "SetTheme", name |-> name, err |-> "nil"]
    /\ calls = MaxCalls - 1
    /\ RenderAtRest
    /\ highlighter \in Highlighters
    /\ AppIdle
    /\ TruncateIdle
    /\ CompositorIdle
    /\ ParserIdle
    /\ HunkIdle
    /\ ColumnIdle

NextWorkers ==
    \/ \E res \in RenderResults, view \in Views : RenderBegin(res, view)
    \/ RenderSteps

\* one render, nothing else running
SpecWorkers == InitWorkers /\ [][NextWorkers]_vars

NextThemeRace ==
    \/ NextWorkers
    \/ \E name \in RequestedThemes : SetThemeDuringRender(name)

\* one render, with another goroutine selecting themes meanwhile
SpecThemeRace == InitWorkers /\ [][NextThemeRace]_vars

(***************************************************************************)
(* Claims about rendering and themes                                       *)
(***************************************************************************)
\* the lines of hunk h rendered one after another
RECURSIVE SequentialLines(_, _, _, _)
SequentialLines(res, ls, colors, cur) ==
    IF ls = <<>> THEN <<>>
    ELSE <<renderUnifiedLine(res.NewFile, Head(ls), colors, RenderOpts, cur), Newline>>
         \o SequentialLines(res, Tail(ls), colors, cur)

RECURSIVE SequentialHunks(_, _, _, _)
SequentialHunks(res, hs, colors, cur) ==
    IF hs = <<>> THEN <<>>
    ELSE HeaderItems(Head(hs), colors)
         \o SequentialLines(res, Head(hs).Lines, colors, cur)
         \o <<Newline>>
         \o SequentialHunks(res, Tail(hs), colors, cur)

\* C16: whatever the order in which the per-line workers run and finish,
\* the lines of a hunk are emitted in input order and the output is the
\* output of rendering the same lines one after another.
C16_ParallelEqualsSequential ==
    /\ (renderPc = "done" /\ rView = "unified" /\ ~rResult.IsBinary)
          => sb = SequentialHunks(rResult, rResult.Hunks, theme, theme)
    /\ (renderPc = "wait" /\ WaitReturns(wg))
          => \A k \in 1..Len(CurrentHunk.Lines) :
                /\ lineSlots[k] # <<>>
                /\ lineSlots[k][1].line = <<CurrentHunk.Lines[k]>>

C16_Witness ==
    /\ renderPc = "done" /\ rView = "unified"
    /\ Len(rResult.Hunks) = 1
    /\ [k \in 1..Len(rResult.Hunks[1].Lines) |-> rResult.Hunks[1].Lines[k].Kind]
          = <<LineContext, LineAdded>>
    /\ Len(sb) = 7
    /\ sb[3].line = <<rResult.Hunks[1].Lines[1]>>
    /\ sb[5].line = <<rResult.Hunks[1].Lines[2]>>

\* C17: every line of a render, the syntax highlighting of Context lines
\* included, uses the theme snapshot taken before the workers started,
\* also when SetTheme is called while the hunk is being rendered.
C17_WorkersUseSnapshot ==
    \A k \in 1..Len(lineSlots) :
        lineSlots[k] # <<>>
        => /\ lineSlots[k][1].colors = theme
           /\ lineSlots[k][1].syntax \in {<<>>, theme, <<Monokai>>}

\* a render of a non-binary result begins in this step
RenderBegins ==
    /\ NotRendering
    /\ calls' = calls + 1
    /\ lastCall'.fn = "Render"
    /\ ~rResult'.IsBinary

\* C18: a render started when the theme system is initialised and a theme
\* X is current leaves X current and takes X as the theme it renders with.
\* Stated for renders during which the terminal background is detected as
\* it was before.
C18_RenderKeepsSelectedTheme ==
    [][(/\ RenderBegins
        /\ availableThemes # <<>>
        /\ currentTheme # <<>>
        /\ terminalIsDark' = terminalIsDark)
       => (currentTheme' = currentTheme /\ theme' = currentTheme)]_vars

\* SetTheme(name) was called by the program in this step
SetThemeCalled(name) ==
    /\ calls' = calls + 1
    /\ lastCall'.fn = "SetTheme"
    /\ lastCall'.name = name

Available(name) == availableThemes # <<>> /\ name \in availableThemes[1]

C19_SetTheme ==
    \A name \in RequestedThemes :
        SetThemeCalled(name)
        => IF Available(name)
           THEN /\ lastCall'.err = "nil"
                /\ currentTheme' # <<>>
                /\ currentTheme'[1].theme = name
           ELSE /\ lastCall'.err # "nil"
                /\ currentTheme' = currentTheme

\* C19: SetTheme(name) returns nil and makes the named theme current when
\* name is available, returns an error and leaves the current theme as it
\* is when not; GetCurrentTheme never returns nil, before or after
\* Initialize and after a failed SetTheme.
C19_SetThemeAndCurrent ==
    [](GetCurrentTheme(currentTheme) # <<>>) /\ [][C19_SetTheme]_vars

C19_Witness ==
    /\ lastCall = [fn |-> "SetTheme", name |-> "nonexistent", err |-> "theme not found"]
    /\ availableThemes # <<>>
    /\ currentTheme # <<>>
    /\ currentTheme[1].theme = "nord"
    /\ GetCurrentTheme(currentTheme) = currentTheme

(***************************************************************************)
(* renderSideBySideLine on bytes: one column of the side-by-side view.     *)
(***************************************************************************)
\* strings.Repeat(" ", n)
Spaces(n) == [k \in 1..n |-> 32]

\* the decimal digits of n >= 0, as bytes
RECURSIVE DecimalDigits(_)
DecimalDigits(n) ==
    IF n < 10 THEN <<48 + n>> ELSE DecimalDigits(n \div 10) \o <<48 + (n % 10)>>

\* fmt.Sprintf("%6d", n): padded with spaces on the left to six bytes, and
\* longer when n has more digits
Sprintf6d(n) ==
    LET ds == DecimalDigits(n)
    IN  IF Len(ds) >= 6 THEN ds ELSE Spaces(6 - Len(ds)) \o ds

\* lipgloss Style.Render(str) for a style that sets colors: str between the
\* style's escape sequence and a reset (a terminal with colors)
Render(styleSeq, str) == styleSeq \o str \o ResetSeq

\* the escape sequences of the styles, for a theme with one-digit colors
BgStyleSeq == BackgroundStyle(4, 5, 6)
LineNumberStyleSeq == CreateHighlightStyle(<<55, 59, 56, 59, 57>>, <<52, 59, 53, 59, 54>>)
EmptyStyleSeq == BackgroundStyle(7, 8, 9)

\* themes.SyntaxHighlightLine on bytes: a blank line and a line chroma
\* returns an error for as they are, any other line with its text between
\* a color sequence and a reset
SyntaxHighlightBytes(text) ==
    IF IsBlank(text) \/ text \in highlighter.errOn THEN text ELSE SgrRed \o text \o ResetSeq

\* utf8.RuneCountInString(StripANSI(str))
VisibleLength(str) == Len(Runes(StripANSI(str)))

\* TruncateString, first loop: st = [sb, i, visibleCount]
RECURSIVE TruncateWalk(_, _, _, _)
TruncateWalk(str, matches, width, st) ==
    IF ~(st.i < Len(str) /\ st.visibleCount < width) THEN st
    ELSE LET m == MatchAt(matches, st.i)
         IN  IF m # <<>>
             THEN TruncateWalk(str, matches, width,
                               [st EXCEPT !.sb = @ \o Slice(str, m[1], m[2]), !.i = m[2]])
             ELSE LET r == DecodeRune(str, st.i)
                  IN  TruncateWalk(str, matches, width,
                                   [sb |-> st.sb \o r.enc, i |-> st.i + r.size,
                                    visibleCount |-> st.visibleCount + 1])

\* every escape sequence, also those the first loop copied
CopiedAfterCut_All(match, i) == TRUE

\* if match[0] >= i
CopiedAfterCut(match, i) == match[1] >= i

\* TruncateString, second loop: the escape sequences from offset i on
RECURSIVE RemainingAnsi(_, _, _, _)
RemainingAnsi(str, matches, k, i) ==
    IF k > Len(matches) THEN <<>>
    ELSE (IF CopiedAfterCut(matches[k], i) THEN Slice(str, matches[k][1], matches[k][2]) ELSE <<>>)
         \o RemainingAnsi(str, matches, k + 1, i)

TruncateString(str, width) ==
    IF width <= 0 THEN <<>>
    ELSE LET matches == FindAllStringIndex(str)
             st == TruncateWalk(str, matches, width, [sb |-> <<>>, i |-> 0, visibleCount |-> 0])
         IN  st.sb \o RemainingAnsi(str, matches, 1, st.i)

\* the line number renderSideBySideLine prints
ColumnLineNo(dl, isLeft) ==
    CASE dl.Kind = LineRemoved -> dl.OldLineNo
      [] dl.Kind = LineAdded -> dl.NewLineNo
      [] dl.Kind = LineContext -> IF isLeft THEN dl.OldLineNo ELSE dl.NewLineNo

\* renderSideBySideLine(filename, dl, theme, opts, width, isLeft): side is
\* <<>> for dl == nil, else <<dl>>
renderSideBySideLine(filename, side, opts, width, isLeft) ==
    IF side = <<>> THEN Render(EmptyStyleSeq, Spaces(width))
    ELSE LET dl == side[1]
             numbers == IF opts.ShowLineNumbers
                        THEN Render(LineNumberStyleSeq, Sprintf6d(ColumnLineNo(dl, isLeft))) \o <<32>>
                        ELSE <<>>
             syntax == IF filename # <<>> /\ dl.Kind = LineContext
                       THEN SyntaxHighlightBytes(dl.Content) ELSE dl.Content
             marked == IF Len(dl.Segments) > 0 /\ dl.Kind # LineContext
                       THEN ApplyHighlighting(syntax, dl.Segments, dl.Kind, BackgroundStyle(1, 2, 3))
                       ELSE syntax
             contentWidth == IF opts.ShowLineNumbers THEN width - 7 ELSE width
             res == numbers \o Render(BgStyleSeq, TruncateString(marked, contentWidth))
             currentWidth == VisibleLength(res)
         IN  IF currentWidth < width
             THEN res \o Render(BgStyleSeq, Spaces(width - currentWidth))
             ELSE res

\* contents of a column's line: n letters, optionally after U+00E9 or the
\* byte E9, for lengths around the column and content widths
ColumnLengths == {0, 1, 32, 33, 34, 40, 41, 42}

ColumnTexts ==
    {pre \o [k \in 1..n |-> 97] : pre \in {<<>>, <<195, 169>>, <<233>>}, n \in ColumnLengths}

\* line numbers of up to seven digits
ColumnLineNumbers == {1, 999999, 1000000}

ColumnWidths == {0, 80, 82}

\* a line as the parser and HighlightIntralineChanges leave it: Context
\* lines carry both numbers and no segment, Added and Removed lines their
\* own number and no segment or one segment over their first byte
ColumnSegments(t, kind) ==
    {<<>>} \cup (IF t = <<>> THEN {} ELSE {<<Segment(0, 1, kind, <<t[1]>>)>>})

ChangedColumnLines(kind, n, t) ==
    {[DiffLine(kind, IF kind = LineRemoved THEN n ELSE 0, IF kind = LineAdded THEN n ELSE 0, t)
         EXCEPT !.Segments = sg] : sg \in ColumnSegments(t, kind)}

ColumnLines ==
    {DiffLine(LineContext, n, n, t) : n \in ColumnLineNumbers, t \in ColumnTexts}
    \cup UNION {ChangedColumnLines(kind, n, t) :
                   kind \in {LineAdded, LineRemoved}, n \in ColumnLineNumbers, t \in ColumnTexts}

InitColumn ==
    /\ colFilename \in {<<>>, <<"x">>}
    /\ colLine \in {<<>>} \cup {<<dl>> : dl \in ColumnLines}
    /\ colOpts \in {[Width |-> w, ShowLineNumbers |-> b] : w \in ColumnWidths, b \in BOOLEAN}
    /\ colIsLeft \in BOOLEAN
    /\ column = <<>>
    /\ colPc = "call"
    /\ CompositorIdle
    /\ ParserIdle
    /\ HunkIdle
    /\ ThemesIdle
    /\ RenderIdle
    /\ AppIdle
    /\ TruncateIdle

\* renderSideBySideHunk: renderSideBySideLine(file, pair side, theme, opts,
\* halfWidth, isLeft)
CallRenderSideBySideLine ==
    /\ colPc = "call"
    /\ column' = renderSideBySideLine(colFilename, colLine, colOpts, HalfWidth(colOpts), colIsLeft)
    /\ colPc' = "done"
    /\ UNCHANGED <<colFilename, colLine, colOpts, colIsLeft, hlVars, parseVars, hunkVars, themeVars, renderVars, appVars, truncVars>>

NextColumn == CallRenderSideBySideLine

SpecColumn == InitColumn /\ [][NextColumn]_vars

\* C20: every column of the side-by-side view, for a populated or an empty
\* side, with or without line numbers, has exactly max(40, Width/2)
\* visible characters, escape sequences not counted.
C20_ColumnWidthExact ==
    colPc = "done" => VisibleLength(column) = HalfWidth(colOpts)

(***************************************************************************)
(* Claims about the highlighter's errors and the line workers              *)
(***************************************************************************)
\* the lines of all hunks, in order
RECURSIVE AllLines(_)
AllLines(hs) == IF hs = <<>> THEN <<>> ELSE Head(hs).Lines \o AllLines(Tail(hs))

IsLineItem(it) == it.item = "line"

\* chroma returns an error for the line dl of the file
HighlightFails(file, dl) ==
    file # <<>> /\ dl.Kind = LineContext /\ dl.Content \in highlighter.errOn

\* the line dl of the file is handed to chroma, which returns no error
HighlightWorks(file, dl) ==
    /\ file # <<>> /\ dl.Kind = LineContext
    /\ ~IsBlank(dl.Content) /\ dl.Content \notin highlighter.errOn

\* C21: a Context line for which the syntax highlighter returns an error
\* is rendered with its plain content; every other line of the hunk is
\* rendered as it is without the error, in its place, and the render
\* returns without error.
C21_ErrorDegradesToPlain ==
    /\ \A k \in 1..Len(sb) :
          (sb[k].item \in {"line", "left", "right"} /\ sb[k].line # <<>>)
          => LET dl == sb[k].line[1]
                 file == IF sb[k].item = "left" THEN rResult.OldFile ELSE rResult.NewFile
             IN  /\ HighlightFails(file, dl) => sb[k].syntax = <<>>
                 /\ HighlightWorks(file, dl) => sb[k].syntax # <<>>
                 /\ sb[k].colors = theme
    /\ (renderPc = "done" /\ rView = "unified" /\ ~rResult.IsBinary)
          => /\ lastCall.err = "nil"
             /\ LET items == SelectSeq(sb, IsLineItem)
                     ls == AllLines(rResult.Hunks)
                 IN  /\ Len(items) = Len(ls)
                     /\ \A k \in 1..Len(ls) : items[k].line = <<ls[k]>>

C21_Witness ==
    /\ renderPc = "done" /\ rView = "unified"
    /\ highlighter.errOn = {<<97>>}
    /\ rResult.NewFile # <<>>
    /\ Len(rResult.Hunks) = 1
    /\ [k \in 1..Len(rResult.Hunks[1].Lines) |->
           <<rResult.Hunks[1].Lines[k].Kind, rResult.Hunks[1].Lines[k].Content>>]
          = <<<<LineContext, <<97>>>>, <<LineContext, <<98>>>>>>
    /\ Len(sb) = 7
    /\ sb[3].syntax = <<>>
    /\ sb[5].syntax # <<>>

\* the workers of the hunk that have been started and have not returned
Running == pending \cup exiting

C24_Slots ==
    renderPc = "wait"
    => \A k \in 1..Len(lineSlots) :
          /\ writers[k] \in {<<>>, <<k>>}
          /\ writers[k] = <<k>> <=> k \notin pending
          /\ lineSlots[k] # <<>> <=> writers[k] # <<>>

C24_Steps ==
    renderPc = "wait"
    => /\ rResult' = rResult
       /\ \A k \in 1..Len(lineSlots) :
             lineSlots'[k] # lineSlots[k]
             => k \in pending /\ writers'[k] = Append(writers[k], k)
       /\ sb' # sb
             => /\ Running = {}
                /\ \A k \in 1..Len(lineSlots) : writers[k] = <<k>>

\* C24: while the workers of a hunk run, slot i is written once and only
\* by the worker started for line i, the hunk's lines and segments are
\* left as they are, and the slots are read for concatenation only after
\* every worker has returned.
C24_SlotDiscipline == []C24_Slots /\ [][C24_Steps]_vars

\* both slots written, the first worker not yet returned
C24_Witness ==
    /\ renderPc = "wait"
    /\ writers = <<<<1>>, <<2>>>>
    /\ pending = {}
    /\ exiting = {1}
    /\ wg = 1

\* C25: the number of workers running at once for a hunk stays under one
\* bound, whatever the number of lines in the hunk: the workers running
\* are always fewer than the lines of the longest hunk rendered.
C25_BoundedWorkers == Cardinality(Running) <= MaxRenderLines - 1

(***************************************************************************)
(* The TUI: app.Model with Update, handleKeyPress and View, as bubbletea   *)
(* calls them.                                                             *)
(***************************************************************************)
\* lines of the hunk shown in the TUI
MaxTuiLines == 2
\* window heights bubbletea reports
MaxHeight == 6
\* scroll offsets followed: -MaxScroll..MaxScroll
MaxScroll == 6

\* a hunk of n Context lines
TuiHunk(n) ==
    [Header |-> LineHunkA,
     Lines |-> NumberedFrom([k \in 1..n |-> <<LineContext, <<97>>>>], 1, 1)]

\* m.diffResult: no hunk, one hunk of up to MaxTuiLines lines, two hunks
\* (no Removed line directly followed by an Added line, so that the
\* HighlightIntralineChanges of every render leaves the hunks as they are)
TuiResults ==
    {[OldFile |-> <<"x">>, NewFile |-> <<"x">>, Hunks |-> hs, IsBinary |-> FALSE] :
        hs \in {<<>>, <<TuiHunk(1), TuiHunk(1)>>} \cup {<<TuiHunk(n)>> : n \in 1..MaxTuiLines}}

\* strings.Count(output, "\n") for output the rendered result: per hunk
\* the header line, the lines (unified) or the pairs (side-by-side), and
\* the "\n" after the hunk
RECURSIVE NewlineCount(_, _)
NewlineCount(hs, view) ==
    IF hs = <<>> THEN 0
    ELSE (IF view = "unified" THEN Len(Head(hs).Lines) ELSE Len(PairLines(Head(hs).Lines)))
         + 2 + NewlineCount(Tail(hs), view)

\* len(strings.Split(output, "\n"))
SplitCount(res, view) == NewlineCount(res.Hunks, view) + 1

\* View() reaches the render
ViewRenders(rdy, err, res) == rdy /\ ~err /\ res.Hunks # <<>>

\* View() on a model with these fields (View has a value receiver: what it
\* assigns to m.scrollOffset is not kept).  kind is "text" for the three
\* one-line texts, "panic" when lines[m.scrollOffset:end] is out of
\* range, else "window" with the slice bounds; lines is countLines of
\* the string returned, the status bar being one line.
View(rdy, err, res, view, offset, height) ==
    IF ~ViewRenders(rdy, err, res) THEN [kind |-> "text", from |-> 0, to |-> 0, lines |-> 1]
    ELSE LET len == SplitCount(res, view)
             visibleLines == height - 2
             clamped == IF offset >= len THEN len - 1 ELSE offset
             from == IF clamped < 0 THEN 0 ELSE clamped
             end == IF from + visibleLines > len THEN len ELSE from + visibleLines
         IN  IF end < from THEN [kind |-> "panic", from |-> from, to |-> end, lines |-> 0]
             ELSE [kind |-> "window", from |-> from, to |-> end,
                   lines |-> (IF end - from > 0 THEN end - from - 1 ELSE 0) + 2]

\* the switch of handleKeyPress on msg.String()
KeyCase(key) ==
    CASE key \in {"q", "ctrl+c"} -> "quit"
      [] key \in {"j", "down"} -> "down"
      [] key \in {"k", "up"} -> "up"
      [] key \in {"ctrl+f", "pgdown"} -> "pgdown"
      [] key \in {"ctrl+b", "pgup"} -> "pgup"
      [] key \in {"g", "home"} -> "home"
      [] key \in {"G", "end"} -> "end"
      [] key = "tab" -> "tab"
      [] key = "n" -> "n"
      [] key = "?" -> "?"
      [] OTHER -> "none"

Keys ==
    {"q", "ctrl+c", "j", "down", "k", "up", "ctrl+f", "pgdown", "ctrl+b", "pgup",
     "g", "home", "G", "end", "tab", "n", "?", "x"}

\* the render inside View(): themes.Initialize(), in the terminal the
\* program was started in (the hunks are left as they are by
\* HighlightIntralineChanges)
RenderInView ==
    \E dark \in {terminalIsDark} :
        LET g == InitializeOn(currentTheme, dark)
        IN  /\ availableThemes' = g.availableThemes
            /\ terminalIsDark' = g.terminalIsDark
            /\ currentTheme' = g.currentTheme

\* Update(tea.WindowSizeMsg)
WindowSizeMsg(height) ==
    /\ tuiPc = "running"
    /\ windowHeight' = height
    /\ ready' = TRUE
    /\ lastMsg' = "WindowSizeMsg"
    /\ UNCHANGED <<mErr, diffResult, viewMode, scrollOffset, showLineNumbers, mode, tuiPc>>
    /\ UNCHANGED <<hlVars, parseVars, hunkVars, themeVars, renderVars, columnVars, pipeVars, truncVars>>

\* Update(error)
ErrorMsg ==
    /\ tuiPc = "running"
    /\ mErr' = TRUE
    /\ lastMsg' = "error"
    /\ UNCHANGED <<ready, windowHeight, diffResult, viewMode, scrollOffset, showLineNumbers, mode, tuiPc>>
    /\ UNCHANGED <<hlVars, parseVars, hunkVars, themeVars, renderVars, columnVars, pipeVars, truncVars>>

\* Update(tea.KeyMsg) for a key other than "G" and "end": handleKeyPress
KeyMsg(key) ==
    /\ tuiPc = "running"
    /\ KeyCase(key) # "end"
    /\ lastMsg' = "KeyMsg"
    /\ KeyCase(key) = "down" => scrollOffset < MaxScroll
    /\ KeyCase(key) = "pgdown" => scrollOffset + windowHeight - 2 \in (0 - MaxScroll)..MaxScroll
    /\ KeyCase(key) = "pgup" => scrollOffset - (windowHeight - 2) <= MaxScroll
    /\ tuiPc' = IF KeyCase(key) = "quit" THEN "quit" ELSE "running"
    /\ scrollOffset' =
          CASE KeyCase(key) = "down" -> scrollOffset + 1
            [] KeyCase(key) = "up" -> IF scrollOffset > 0 THEN scrollOffset - 1 ELSE scrollOffset
            [] KeyCase(key) = "pgdown" -> scrollOffset + (windowHeight - 2)
            [] KeyCase(key) = "pgup" ->
                  IF scrollOffset - (windowHeight - 2) < 0 THEN 0
                  ELSE scrollOffset - (windowHeight - 2)
            [] KeyCase(key) = "home" -> 0
            [] OTHER -> scrollOffset
    /\ viewMode' =
          IF KeyCase(key) = "tab"
          THEN (IF viewMode = "unified" THEN "side-by-side" ELSE "unified")
          ELSE viewMode
    /\ showLineNumbers' = IF KeyCase(key) = "n" THEN ~showLineNumbers ELSE showLineNumbers
    /\ mode' = IF KeyCase(key) = "?" THEN "ModeHelp" ELSE mode
    /\ UNCHANGED <<ready, windowHeight, mErr, diffResult>>
    /\ UNCHANGED <<hlVars, parseVars, hunkVars, themeVars, renderVars, columnVars, pipeVars, truncVars>>

\* Update(tea.KeyMsg) for "G" or "end": totalLines := countLines(m.View()),
\* m.scrollOffset = totalLines - m.windowHeight + 2, not below 0
KeyEnd(key) ==
    /\ tuiPc = "running"
    /\ KeyCase(key) = "end"
    /\ lastMsg' = "KeyMsg end"
    /\ LET v == View(ready, mErr, diffResult, viewMode, scrollOffset, windowHeight)
           totalLines == v.lines
       IN  /\ tuiPc' = IF v.kind = "panic" THEN "panic" ELSE "running"
           /\ scrollOffset' =
                 IF v.kind = "panic" THEN scrollOffset
                 ELSE IF totalLines - windowHeight + 2 < 0 THEN 0
                 ELSE totalLines - windowHeight + 2
    /\ IF ViewRenders(ready, mErr, diffResult)
       THEN RenderInView
       ELSE UNCHANGED <<availableThemes, currentTheme, terminalIsDark>>
    /\ UNCHANGED <<ready, windowHeight, mErr, diffResult, viewMode, showLineNumbers, mode>>
    /\ UNCHANGED <<lastCall, calls, hlVars, parseVars, hunkVars, renderVars, columnVars, pipeVars, truncVars>>

\* bubbletea calls View() to draw the screen
CallView ==
    /\ tuiPc = "running"
    /\ lastMsg' = "View"
    /\ tuiPc' = IF View(ready, mErr, diffResult, viewMode, scrollOffset, windowHeight).kind = "panic"
                THEN "panic" ELSE "running"
    /\ IF ViewRenders(ready, mErr, diffResult)
       THEN RenderInView
       ELSE UNCHANGED <<availableThemes, currentTheme, terminalIsDark>>
    /\ UNCHANGED <<ready, windowHeight, mErr, diffResult, viewMode, scrollOffset, showLineNumbers, mode>>
    /\ UNCHANGED <<lastCall, calls, hlVars, parseVars, hunkVars, renderVars, columnVars, pipeVars, truncVars>>

\* RunTUIMode up to p.Run(): themes.Initialize(), SetTheme(cfg.UI.Theme),
\* the initial model with the parsed diff
InitTui ==
    /\ availableThemes = <<EmbeddedThemes>>
    /\ terminalIsDark \in BOOLEAN
    /\ \E name \in EmbeddedThemes :
          /\ currentTheme = <<resolveTheme(name, terminalIsDark)>>
          /\ lastCall = [fn |-> "SetTheme", name |-> name, err |-> "nil"]
    /\ calls = 2
    /\ ready = FALSE
    /\ windowHeight = 0
    /\ mErr = FALSE
    /\ diffResult \in TuiResults
    /\ viewMode = "unified"
    /\ scrollOffset = 0
    /\ showLineNumbers \in BOOLEAN
    /\ mode = "ModeDiff"
    /\ lastMsg = "none"
    /\ tuiPc = "running"
    /\ PipeIdle
    /\ TruncateIdle
    /\ RenderIdle
    /\ CompositorIdle
    /\ ParserIdle
    /\ HunkIdle
    /\ ColumnIdle

NextTui ==
    \/ \E height \in 0..MaxHeight : WindowSizeMsg(height)
    \/ ErrorMsg
    \/ \E key \in Keys : KeyMsg(key)
    \/ \E key \in Keys : KeyEnd(key)
    \/ CallView

SpecTui == InitTui /\ [][NextTui]_vars

(***************************************************************************)
(* Claims about the TUI                                                    *)
(***************************************************************************)
Max0(n) == IF n < 0 THEN 0 ELSE n

\* C22: pressing 'G' or 'End' on a rendered diff of L lines in a window of
\* height H sets the scroll offset to max(0, L - (H - 2)), L being the
\* number of lines of the rendered diff with or without the empty string
\* after its last "\n".
C22_EndGoesToBottom ==
    [][(/\ tuiPc = "running" /\ tuiPc' = "running"
        /\ lastMsg' = "KeyMsg end"
        /\ ViewRenders(ready, mErr, diffResult))
       => scrollOffset' \in {Max0(SplitCount(diffResult, viewMode) - (windowHeight - 2)),
                             Max0(NewlineCount(diffResult.Hunks, viewMode) - (windowHeight - 2))}]_vars

\* C30: scrollOffset is never negative.
C30_ScrollOffsetNotNegative == scrollOffset >= 0

(***************************************************************************)
(* RunPipeMode, from the formatted output on: inline, pager or standard    *)
(* output.  pagers says for "less" and "more" whether exec.LookPath finds  *)
(* it and whether its run succeeds; pipeOut is the sequence of programs    *)
(* run and writes to standard output.                                      *)
(***************************************************************************)
\* lines of the formatted output
MaxPipeLines == 3

\* what getTerminalHeight() returns: two small terminals and the default
TermHeights == {6, 7, 24}

PagerStates == {"absent", "fails", "runs"}

\* showWithPager(content) from the pager names left to try
RECURSIVE showWithPager(_, _)
showWithPager(names, found) ==
    IF names = <<>> THEN <<"stdout">>
    ELSE IF found[Head(names)] = "absent" THEN showWithPager(Tail(names), found)
    ELSE IF found[Head(names)] = "runs" THEN <<Head(names)>>
    ELSE <<Head(names)>> \o showWithPager(Tail(names), found)

\* shouldUsePager(): standard output is a character device
shouldUsePager == stdoutIsTerminal

\* RunPipeMode after the diff is formatted: the --no-pager flag, declared
\* in main.go, is read nowhere
PipeOutput ==
    /\ pipePc = "formatted"
    /\ pipeOut' =
          IF lineCount < termHeight - 5 THEN <<"stdout">>
          ELSE IF shouldUsePager THEN showWithPager(<<"less", "more">>, pagers)
          ELSE <<"stdout">>
    /\ pipePc' = "done"
    /\ UNCHANGED <<noPager, stdoutIsTerminal, termHeight, lineCount, pagers>>
    /\ UNCHANGED <<hlVars, parseVars, hunkVars, themeVars, renderVars, columnVars, tuiVars, truncVars>>

\* the command line parsed, the diff formatted
InitPipe ==
    /\ noPager \in BOOLEAN
    /\ stdoutIsTerminal \in BOOLEAN
    /\ termHeight \in TermHeights
    /\ lineCount \in 0..MaxPipeLines
    /\ pagers \in [{"less", "more"} -> PagerStates]
    /\ pipeOut = <<>>
    /\ pipePc = "formatted"
    /\ TuiIdle
    /\ TruncateIdle
    /\ ThemesIdle
    /\ RenderIdle
    /\ CompositorIdle
    /\ ParserIdle
    /\ HunkIdle
    /\ ColumnIdle

NextPipe == PipeOutput

SpecPipe == InitPipe /\ [][NextPipe]_vars

\* C23: with --no-pager, pipe mode runs no pager and writes the output to
\* standard output, whatever its length and whether or not standard output
\* is a terminal.
C23_NoPagerFlag ==
    (pipePc = "done" /\ noPager) => pipeOut = <<"stdout">>

(***************************************************************************)
(* The call of TruncateString: inputs and the step.                        *)
(***************************************************************************)
\* what a string to truncate is built from: the chunks of a content, a
\* lone ESC, '[' and the two-byte escape sequence "\x1bM"
TruncChunkSet == ChunkSet \cup {<<ESC>>, <<91>>, <<ESC, 77>>}

RECURSIVE TruncStringsOf(_)
TruncStringsOf(n) ==
    IF n = 0 THEN {<<>>}
    ELSE LET prev == TruncStringsOf(n - 1)
         IN  prev \cup {c \o ch : c \in prev, ch \in TruncChunkSet}

TruncStrings == TruncStringsOf(MaxTruncChunks)

\* widths below, at and above the visible lengths of the strings
TruncWidths == (0 - 1)..(MaxTruncChunks + 1)

InitTruncate ==
    /\ truncStr \in TruncStrings
    /\ truncWidth \in TruncWidths
    /\ truncated = <<>>
    /\ truncPc = "call"
    /\ CompositorIdle
    /\ ParserIdle
    /\ HunkIdle
    /\ ThemesIdle
    /\ RenderIdle
    /\ AppIdle
    /\ ColumnIdle

CallTruncateString ==
    /\ truncPc = "call"
    /\ truncated' = TruncateString(truncStr, truncWidth)
    /\ truncPc' = "done"
    /\ UNCHANGED <<truncStr, truncWidth, hlVars, parseVars, hunkVars, themeVars, renderVars, columnVars, appVars>>

NextTruncate == CallTruncateString

SpecTruncate == InitTruncate /\ [][NextTruncate]_vars

(***************************************************************************)
(* HighlightIntralineChanges called again on the same hunk, as every       *)
(* render of a DiffResult does.                                            *)
(***************************************************************************)
\* the segment lists start from what the lines already hold
FreshSegments_Kept(removed, added) == [old |-> removed.Segments, new |-> added.Segments]

\* oldSegments := []Segment{}; newSegments := []Segment{}
FreshSegments(removed, added) == [old |-> <<>>, new |-> <<>>]

\* dmp.DiffMain and DiffCleanupSemantic in a later call: the library
\* returns for the same two texts the script it returned before
DiffMainAgain(i) ==
    IF scripts[i + 1].used THEN {scripts[i + 1].diffs}
    ELSE DiffMain(hunk[i + 1].Content, hunk[i + 2].Content)

\* a later call, one iteration of the loop at a Removed line followed by an
\* Added line
RehighlightPair ==
    /\ hunkPc = "again"
    /\ hi < Len(hunk)
    /\ IsChangePair(hunk, hi)
    /\ \E diffs \in DiffMainAgain(hi) :
          LET segs == BuildSegments(diffs, 0, 0, FreshSegments(hunk[hi + 1], hunk[hi + 2]))
          IN  /\ hunk' = [hunk EXCEPT ![hi + 1].Segments = segs.old,
                                      ![hi + 2].Segments = segs.new]
              /\ scripts' = [scripts EXCEPT ![hi + 1] = [used |-> TRUE, diffs |-> diffs]]
    /\ hi' = hi + 2
    /\ UNCHANGED <<pairs, hunkPc, hlVars, parseVars, themeVars, renderVars, columnVars, appVars, truncVars>>

\* a later call, one iteration of the loop at any other line
RehighlightSkip ==
    /\ hunkPc = "again"
    /\ hi < Len(hunk)
    /\ ~IsChangePair(hunk, hi)
    /\ hi' = hi + 1
    /\ UNCHANGED <<hunk, scripts, pairs, hunkPc, hlVars, parseVars, themeVars, renderVars, columnVars, appVars, truncVars>>

\* a call returns and the next render calls the function again
RenderAgain ==
    /\ hunkPc \in {"highlight", "again"}
    /\ hi >= Len(hunk)
    /\ hunkPc' = "again"
    /\ hi' = 0
    /\ UNCHANGED <<hunk, scripts, pairs, hlVars, parseVars, themeVars, renderVars, columnVars, appVars, truncVars>>

NextRerender ==
    HighlightPair \/ HighlightSkip \/ RehighlightPair \/ RehighlightSkip \/ RenderAgain

SpecRerender == InitHunk /\ [][NextRerender]_vars

(***************************************************************************)
(* Claims about highlighted spans, truncation and repeated highlighting    *)
(***************************************************************************)
\* the visible text of s is ASCII
AsciiVisible(s) == \A k \in 1..Len(StripANSI(s)) : StripANSI(s)[k] < 128

\* C26: every visible character whose position lies in [Start, End) of a
\* segment of the requested kind has the highlight background as its
\* effective background in the output, also when escape sequences of the
\* content fall inside the segment.  Stated on the inputs most favourable
\* to the claim: ASCII text (byte and character positions agree) and
\* segments as the intraline highlighter produces them.
C26_HighlightHeldInsideSpan ==
    (hlPc = "done" /\ AsciiVisible(content) /\ ProducedSegments(segments, content))
    => LET shown == EffectiveStyles(composed)
       IN  /\ Len(shown) = Len(StripANSI(content))
           /\ \A p \in 0..(Len(shown) - 1) :
                 InSomeSegment(p) => shown[p + 1].bg = HighlightBg

\* the escape sequences of s, in order
EscapeSequences(s) ==
    LET matches == FindAllStringIndex(s)
    IN  [k \in 1..Len(matches) |-> Slice(s, matches[k][1], matches[k][2])]

C28_HighlightIdempotent == [][hunkPc = "again" => hunk' = hunk]_vars

\* a later call has computed the segments of a change pair again
C28_Witness ==
    /\ hunkPc = "again"
    /\ hi = 2
    /\ IsChangePair(hunk, 0)
    /\ hunk[1].Segments # <<>>
    /\ hunk[2].Segments # <<>>

\* the rows of PairLines' result that hold a Removed line on the left and
\* another line on the right, as <<left, right>> line positions
ChangeRows ==
    {<<pairs[r].Left, pairs[r].Right>> :
        r \in {q \in DOMAIN pairs : /\ pairs[q].Left # 0
                                    /\ pairs[q].Right # 0
                                    /\ pairs[q].Left # pairs[q].Right}}

\* the pairs of lines HighlightIntralineChanges ran the diff between
DiffedPairs == {<<k, k + 1>> : k \in {j \in DOMAIN scripts : scripts[j].used}}

\* C29: PairLines and HighlightIntralineChanges agree on the change pairs:
\* the rows that hold two different lines are exactly the pairs of lines
\* the intraline diff was computed between.
C29_RowsAreDiffedPairs == hunkPc = "done" => ChangeRows = DiffedPairs

\* Removed, Removed, Added: both leave the first line alone and pair the
\* second with the third
C29_Witness ==
    /\ hunkPc = "done"
    /\ Len(hunk) = 3
    /\ hunk[1].Kind = LineRemoved /\ hunk[2].Kind = LineRemoved /\ hunk[3].Kind = LineAdded
    /\ pairs = <<LinePair(1, 0), LinePair(2, 3)>>
    /\ DiffedPairs = {<<2, 3>>}

====
